---------------------------- MODULE Spec2Model ----------------------------
(***************************************************************************)
(* State-machine models of the puzzle programs of bbliem/aoc2023.  The     *)
(* programs are independent of each other, so every program has a state    *)
(* variable of its own (a record of the fields and locals of its code) and *)
(* a specification of its own; the variables of the other programs stay    *)
(* Idle under it.                                                          *)
(***************************************************************************)
EXTENDS Integers, Sequences, FiniteSets, TLC

VARIABLES day17, day14, day5, day19, day10, day18, day22, day11, day1, day9

vars == <<day17, day14, day5, day19, day10, day18, day22, day11, day1, day9>>

Idle == [pc |-> "idle"]

(***************************************************************************)
(* Helpers shared by the models                                            *)
(***************************************************************************)
Min(S) == CHOOSE m \in S : \A n \in S : m <= n

Max(S) == CHOOSE m \in S : \A n \in S : m >= n

Abs(i) == IF i < 0 THEN -i ELSE i

RECURSIVE SumOver(_, _)
\* The sum of f[i] over the finite set S of indices.
SumOver(f, S) ==
    IF S = {} THEN 0
    ELSE LET i == CHOOSE j \in S : TRUE IN f[i] + SumOver(f, S \ {i})

(***************************************************************************)
(* Day 17: Puzzle::shortest_path                                           *)
(***************************************************************************)
\* Bound: the grids drawn have at most this many cells (w * h).
MaxCells17 == 8

\* Bound: min_move and max_move are drawn from 1..MaxMove17, next to the
\* pairs part1 and part2 use.
MaxMove17 == 3

\* The digits the cells of the drawn grids hold.
Digits17 == {0, 1}

\* usize::MAX, the initial distance; the costs of the model stay far below
\* it, so the largest integer of the checker stands for it.
UsizeMax == 2147483647

Part1Min17 == 1

Part1Max17 == 3

Part2Min17 == 4

Part2Max17 == 10

\* The (min_move, max_move) pairs the model draws.
MoveParams17 ==
    {<<Part1Min17, Part1Max17>>, <<Part2Min17, Part2Max17>>}
        \cup ((1 .. MaxMove17) \X (1 .. MaxMove17))

\* The grids Puzzle::from_input builds: h rows of w digits each.
Grids17 ==
    UNION {[(0 .. h - 1) -> [(0 .. w - 1) -> Digits17]] :
             <<w, h>> \in {wh \in (1 .. MaxCells17) \X (1 .. MaxCells17) :
                             wh[1] * wh[2] <= MaxCells17}}

RECURSIVE EdgesLoop(_, _, _, _, _, _, _, _)
\* One of the four loops of edges_h/edges_v: from (x, y) in direction
\* (dx, dy), distance by distance, until the grid ends or max_move is
\* passed; an edge for every distance of at least min_move.
EdgesLoop(p, x, y, dx, dy, distance, cost, edges) ==
    IF distance > p.max_move THEN edges
    ELSE LET nx == x + dx * distance
             ny == y + dy * distance
         IN  IF nx < 0 \/ ny < 0 \/ nx >= p.w \/ ny >= p.h THEN edges
             ELSE LET c == cost + p.rows[ny][nx]
                  IN  EdgesLoop(p, x, y, dx, dy, distance + 1, c,
                                IF distance >= p.min_move
                                THEN Append(edges, [cost |-> c, x |-> nx, y |-> ny])
                                ELSE edges)

edges_h(p, x, y) ==
    EdgesLoop(p, x, y, -1, 0, 1, 0, <<>>) \o EdgesLoop(p, x, y, 1, 0, 1, 0, <<>>)

edges_v(p, x, y) ==
    EdgesLoop(p, x, y, 0, -1, 1, 0, <<>>) \o EdgesLoop(p, x, y, 0, 1, 1, 0, <<>>)

BoolRank(b) == IF b THEN 1 ELSE 0

\* A mutant of StateCmpGreater: the cost is compared the natural way round,
\* which makes the heap pop the most expensive state first.
StateCmpGreaterNotReversed(a, b) ==
    \/ a.cost > b.cost
    \/ a.cost = b.cost /\ a.x > b.x
    \/ a.cost = b.cost /\ a.x = b.x /\ a.y > b.y
    \/ a.cost = b.cost /\ a.x = b.x /\ a.y = b.y
          /\ BoolRank(a.vertical) > BoolRank(b.vertical)

\* Ord for State: a is Greater than b.  The cost is compared in reverse, then
\* x, y and vertical.
StateCmpGreater(a, b) ==
    \/ b.cost > a.cost
    \/ a.cost = b.cost /\ a.x > b.x
    \/ a.cost = b.cost /\ a.x = b.x /\ a.y > b.y
    \/ a.cost = b.cost /\ a.x = b.x /\ a.y = b.y
          /\ BoolRank(a.vertical) > BoolRank(b.vertical)

\* BinaryHeap::pop: the greatest state of the heap.  The heap never holds a
\* state twice (a state is pushed only when it lowers a distance), so a set
\* stands for it.
HeapTop(heap) ==
    CHOOSE s \in heap : \A t \in heap \ {s} : StateCmpGreater(s, t)

RECURSIVE Relax(_, _, _, _, _)
\* The for loop over the edges of the popped state: every edge that lowers
\* the distance of its target is pushed and recorded.  acc holds the heap
\* and the distance table of the direction moved in.
Relax(edges, i, cost, vertical, acc) ==
    IF i > Len(edges) THEN acc
    ELSE LET e == edges[i]
             next == [cost |-> cost + e.cost, x |-> e.x, y |-> e.y,
                      vertical |-> vertical]
         IN  IF next.cost < acc.dist[next.y][next.x]
             THEN Relax(edges, i + 1, cost, vertical,
                        [heap |-> acc.heap \cup {next},
                         dist |-> [acc.dist EXCEPT ![next.y][next.x] = next.cost]])
             ELSE Relax(edges, i + 1, cost, vertical, acc)

\* The state shortest_path starts its loop in.
ShortestPathStart(rows, mm) ==
    LET h == Cardinality(DOMAIN rows)
        w == Cardinality(DOMAIN rows[0])
        dist == [y \in 0 .. h - 1 |->
                   [x \in 0 .. w - 1 |-> IF x = 0 /\ y = 0 THEN 0 ELSE UsizeMax]]
    IN  [pc |-> "loop", rows |-> rows, w |-> w, h |-> h,
         min_move |-> mm[1], max_move |-> mm[2],
         dist_h |-> dist, dist_v |-> dist,
         heap |-> {[cost |-> 0, x |-> 0, y |-> 0, vertical |-> FALSE],
                   [cost |-> 0, x |-> 0, y |-> 0, vertical |-> TRUE]},
         result |-> 0]

\* The variables of the other programs.
Others17 == <<day14, day5, day19, day10, day18, day22, day11, day1, day9>>

Day17Init ==
    /\ \E rows \in Grids17 : \E mm \in MoveParams17 :
          day17 = ShortestPathStart(rows, mm)
    /\ day14 = Idle /\ day5 = Idle /\ day19 = Idle /\ day10 = Idle
    /\ day18 = Idle /\ day22 = Idle
    /\ day11 = Idle /\ day1 = Idle /\ day9 = Idle

\* The popped state is the goal: shortest_path returns its cost.
Day17Return ==
    /\ day17.pc = "loop"
    /\ day17.heap # {}
    /\ LET s == HeapTop(day17.heap)
       IN  /\ s.x = day17.w - 1 /\ s.y = day17.h - 1
           /\ day17' = [day17 EXCEPT !.pc = "done", !.result = s.cost,
                                     !.heap = day17.heap \ {s}]
    /\ UNCHANGED Others17

\* One iteration of the while loop for a popped state that is not the goal.
Day17Pop ==
    /\ day17.pc = "loop"
    /\ day17.heap # {}
    /\ LET s == HeapTop(day17.heap)
           rest == day17.heap \ {s}
       IN  /\ ~(s.x = day17.w - 1 /\ s.y = day17.h - 1)
           /\ IF s.vertical
              THEN IF s.cost <= day17.dist_v[s.y][s.x]
                   THEN LET r == Relax(edges_h(day17, s.x, s.y), 1, s.cost, FALSE,
                                       [heap |-> rest, dist |-> day17.dist_h])
                        IN  day17' = [day17 EXCEPT !.heap = r.heap, !.dist_h = r.dist]
                   ELSE day17' = [day17 EXCEPT !.heap = rest]
              ELSE IF s.cost <= day17.dist_h[s.y][s.x]
                   THEN LET r == Relax(edges_v(day17, s.x, s.y), 1, s.cost, TRUE,
                                       [heap |-> rest, dist |-> day17.dist_v])
                        IN  day17' = [day17 EXCEPT !.heap = r.heap, !.dist_v = r.dist]
                   ELSE day17' = [day17 EXCEPT !.heap = rest]
    /\ UNCHANGED Others17

\* The heap ran empty before the goal was popped: panic!("Goal unreachable").
Day17Panic ==
    /\ day17.pc = "loop"
    /\ day17.heap = {}
    /\ day17' = [day17 EXCEPT !.pc = "panic"]
    /\ UNCHANGED Others17

Day17Next == Day17Return \/ Day17Pop \/ Day17Panic

Spec17 == Day17Init /\ [][Day17Next]_vars

(***************************************************************************)
(* Day 17, claim C1: the reference the result is compared with.  A path is *)
(* a sequence of straight runs of min_move..max_move cells that alternate  *)
(* between horizontal and vertical; its cost is the sum of the digits of   *)
(* the cells it enters.  BestCosts17 is the least cost of such a path from *)
(* the top-left cell to every (cell, direction of the last run), found by  *)
(* relaxing all runs until nothing changes.                                *)
(***************************************************************************)
Cells17(p) == (0 .. p.w - 1) \X (0 .. p.h - 1)

\* The cells a run from a to b enters: those after a, up to b itself.
RunCells17(a, b) ==
    {c \in (Min({a[1], b[1]}) .. Max({a[1], b[1]}))
             \X (Min({a[2], b[2]}) .. Max({a[2], b[2]})) : c # a}

\* A run from a to b; vertical tells its direction.
IsRun17(p, a, b, vertical) ==
    LET len == IF vertical THEN Abs(a[2] - b[2]) ELSE Abs(a[1] - b[1])
    IN  /\ IF vertical THEN a[1] = b[1] ELSE a[2] = b[2]
        /\ len >= 1 /\ len >= p.min_move /\ len <= p.max_move

RunCost17(p, a, b) ==
    SumOver([c \in RunCells17(a, b) |-> p.rows[c[2]][c[1]]], RunCells17(a, b))

\* One round of relaxation over all runs into every (cell, direction).
RelaxAll17(p, D) ==
    [n \in Cells17(p) \X BOOLEAN |->
        Min({D[n]} \cup
            {D[<<a, ~n[2]>>] + RunCost17(p, a, n[1]) :
                a \in {c \in Cells17(p) : /\ IsRun17(p, c, n[1], n[2])
                                          /\ D[<<c, ~n[2]>>] < UsizeMax}})]

RECURSIVE Fix17(_, _)
Fix17(p, D) ==
    LET E == RelaxAll17(p, D) IN IF E = D THEN D ELSE Fix17(p, E)

BestCosts17(p) ==
    Fix17(p, [n \in Cells17(p) \X BOOLEAN |->
                IF n[1] = <<0, 0>> THEN 0 ELSE UsizeMax])

\* The least cost of a path to the bottom-right cell; UsizeMax if none.
BestToGoal17(p) ==
    LET D == BestCosts17(p)
        goal == <<p.w - 1, p.h - 1>>
    IN  Min({D[<<goal, TRUE>>], D[<<goal, FALSE>>]})

\* C1: shortest_path returns the least cost of a path of alternating runs of
\* min_move..max_move cells from the top-left to the bottom-right cell, and
\* panics exactly when there is no such path.
C1_ShortestPathIsMinimum ==
    /\ day17.pc = "done" =>
          /\ BestToGoal17(day17) < UsizeMax
          /\ day17.result = BestToGoal17(day17)
    /\ day17.pc = "panic" => BestToGoal17(day17) = UsizeMax

\* C1 witness: a grid with more than one row and column solved with part1's
\* moves, the cheapest path entering cells that cost something.
C1_Witness ==
    /\ day17.pc = "done"
    /\ day17.min_move = Part1Min17 /\ day17.max_move = Part1Max17
    /\ day17.w > 1 /\ day17.h > 1 /\ day17.result > 1

(***************************************************************************)
(* Day 14: part2, the tilting cycles and the cycle detection               *)
(***************************************************************************)
\* Bound: the platforms drawn have at most this many tiles.
MaxCells14 == 9

\* Bound: the totals of tilting cycles drawn are 0..MaxOps14, next to the
\* total part2 uses.
MaxOps14 == 5

\* The numbers of rounded rocks ("O") and of cube rocks ("#") a drawn
\* platform holds.
Rounded14 == 0 .. 3

Cubes14 == 0 .. 1

\* num_operations of part2.
NumOperations14 == 1000000000

Tile14 == {"O", "#", "."}

Totals14 == (0 .. MaxOps14) \cup {NumOperations14}

\* The puzzles Puzzle::from_input builds: w columns of h tiles, each a
\* sequence from the top row down.
Puzzles14 ==
    {[columns |-> c, num_rows |-> Len(c[1])] :
        c \in UNION {{g \in [(1 .. wh[1]) -> [(1 .. wh[2]) -> Tile14]] :
                        /\ Cardinality({xy \in (1 .. wh[1]) \X (1 .. wh[2]) :
                                          g[xy[1]][xy[2]] = "O"}) \in Rounded14
                        /\ Cardinality({xy \in (1 .. wh[1]) \X (1 .. wh[2]) :
                                          g[xy[1]][xy[2]] = "#"}) \in Cubes14} :
                     wh \in {d \in (1 .. MaxCells14) \X (1 .. MaxCells14) :
                               d[1] * d[2] <= MaxCells14}}}

Repeat14(tile, n) == [k \in 1 .. n |-> tile]

handle_end_of_segment(os_in_segment, segment_len, tilted_column) ==
    tilted_column \o Repeat14("O", os_in_segment)
                  \o Repeat14(".", segment_len - os_in_segment)

RECURSIVE TiltLoop(_, _, _, _, _)
\* The for loop of tilt_vector; k is the 1-based place of the tile read, so
\* the code's index i is k - 1, as is segment_start.
TiltLoop(vector, k, segment_start, os_in_segment, tilted) ==
    IF k > Len(vector)
    THEN handle_end_of_segment(os_in_segment, Len(vector) - segment_start, tilted)
    ELSE IF vector[k] = "O"
         THEN TiltLoop(vector, k + 1, segment_start, os_in_segment + 1, tilted)
         ELSE IF vector[k] = "#"
              THEN TiltLoop(vector, k + 1, k, 0,
                            Append(handle_end_of_segment(
                                       os_in_segment, (k - 1) - segment_start, tilted),
                                   "#"))
              ELSE TiltLoop(vector, k + 1, segment_start, os_in_segment, tilted)

tilt_vector(vector) ==
    CHOOSE r \in {TiltLoop(v, 1, 0, 0, <<>>) : v \in {vector}} : TRUE

\* (The p \in {puzzle} of these definitions only names the value of the
\* argument, so that it is worked out once.)
tilt(puzzle) ==
    CHOOSE r \in {[p EXCEPT !.columns = [c \in 1 .. Len(p.columns) |->
                                            tilt_vector(p.columns[c])]] :
                     p \in {puzzle}} : TRUE

transpose_matrix(matrix) ==
    CHOOSE r \in {[i \in 1 .. Len(m[1]) |-> [c \in 1 .. Len(m) |-> m[c][i]]] :
                     m \in {matrix}} : TRUE

transpose(puzzle) ==
    CHOOSE r \in {[columns |-> t, num_rows |-> Len(t[1])] :
                     t \in {transpose_matrix(puzzle.columns)}} : TRUE

Reverse14(seq) == [k \in 1 .. Len(seq) |-> seq[Len(seq) + 1 - k]]

rotate_left(puzzle) ==
    CHOOSE r \in {[t EXCEPT !.columns = Reverse14(t.columns)] :
                     t \in {transpose(puzzle)}} : TRUE

\* The four rounds of tilt and rotate_left.
tilting_cycle(puzzle) ==
    rotate_left(tilt(rotate_left(tilt(rotate_left(tilt(rotate_left(tilt(puzzle))))))))

load(puzzle) ==
    LET places == {ck \in (1 .. Len(puzzle.columns)) \X (1 .. puzzle.num_rows) :
                     puzzle.columns[ck[1]][ck[2]] = "O"}
    IN  SumOver([ck \in places |-> puzzle.num_rows - (ck[2] - 1)], places)

\* A mutant of remaining_operations: the iteration is taken as 1-based.
remaining_operations_off_by_one(num_operations, cycle_start_iteration, cycle_length) ==
    (num_operations - cycle_start_iteration) % cycle_length

\* part2: the cycles left to run once the state of iteration
\* cycle_start_iteration came back.
remaining_operations(num_operations, cycle_start_iteration, cycle_length) ==
    (num_operations - 1 - cycle_start_iteration) % cycle_length

\* The variables of the other programs.
Others14 == <<day17, day5, day19, day10, day18, day22, day11, day1, day9>>

Day14Init ==
    /\ \E puzzle \in Puzzles14 : \E n \in Totals14 :
          day14 = [pc |-> "for", parsed |-> puzzle, puzzle |-> puzzle,
                   num_operations |-> n, i |-> 0,
                   seen_at_iteration |-> [q \in {} |-> 0],
                   remaining_operations |-> 0, result |-> 0]
    /\ day17 = Idle /\ day5 = Idle /\ day19 = Idle /\ day10 = Idle
    /\ day18 = Idle /\ day22 = Idle
    /\ day11 = Idle /\ day1 = Idle /\ day9 = Idle

\* One iteration of the for loop of part2: a tilting cycle, then the insert
\* into seen_at_iteration, which hands back the iteration the state was seen
\* at before, if it was.
Day14Iteration ==
    /\ day14.pc = "for"
    /\ day14.i < day14.num_operations
    /\ \E q \in {tilting_cycle(day14.puzzle)} :
       LET seen == day14.seen_at_iteration
       IN  IF q \in DOMAIN seen
           THEN LET cycle_start_iteration == seen[q]
                    cycle_length == day14.i - cycle_start_iteration
                IN  day14' = [day14 EXCEPT
                        !.puzzle = q,
                        !.seen_at_iteration = [seen EXCEPT ![q] = day14.i],
                        !.remaining_operations =
                            remaining_operations(day14.num_operations,
                                                 cycle_start_iteration, cycle_length),
                        !.pc = "remaining"]
           ELSE day14' = [day14 EXCEPT
                        !.puzzle = q,
                        !.seen_at_iteration = seen @@ (q :> day14.i),
                        !.i = day14.i + 1]
    /\ UNCHANGED Others14

\* One iteration of the inner loop over 0..remaining_operations.
Day14Remaining ==
    /\ day14.pc = "remaining"
    /\ day14.remaining_operations > 0
    /\ day14' = [day14 EXCEPT !.puzzle = tilting_cycle(day14.puzzle),
                              !.remaining_operations = day14.remaining_operations - 1]
    /\ UNCHANGED Others14

\* The loops are over (all iterations run, or the break): part2 returns the load.
Day14Load ==
    /\ \/ day14.pc = "for" /\ day14.i = day14.num_operations
       \/ day14.pc = "remaining" /\ day14.remaining_operations = 0
    /\ day14' = [day14 EXCEPT !.pc = "done", !.result = load(day14.puzzle)]
    /\ UNCHANGED Others14

Day14Next == Day14Iteration \/ Day14Remaining \/ Day14Load

Spec14 == Day14Init /\ [][Day14Next]_vars

(***************************************************************************)
(* Day 14, claim C2: the platform after N tilting cycles, computed without *)
(* any cycle detection: by N applications for the small totals, and for    *)
(* every total by the N-th power of the cycle on the orbit of the parsed   *)
(* platform (squaring the map, so that 1,000,000,000 is within reach).     *)
(***************************************************************************)
RECURSIVE TiltTimes14(_, _)
TiltTimes14(puzzle, n) ==
    CHOOSE r \in {IF n = 0 THEN p ELSE TiltTimes14(tilting_cycle(p), n - 1) :
                     p \in {puzzle}} : TRUE

RECURSIVE Orbit14(_, _)
Orbit14(puzzle, seen) ==
    CHOOSE r \in {IF p \in seen THEN seen
                  ELSE Orbit14(tilting_cycle(p), seen \cup {p}) : p \in {puzzle}} : TRUE

\* A map of a finite set into itself is kept as its set of <<argument,
\* value>> pairs.
Apply14(f, q) == (CHOOSE pr \in f : pr[1] = q)[2]

\* The map q |-> f(g(q)).
Compose14(f, g) == {<<pr[1], Apply14(f, pr[2])>> : pr \in g}

RECURSIVE Power14(_, _)
\* The n-th power of the map f, by squaring.
Power14(f, n) ==
    IF n = 0 THEN {<<pr[1], pr[1]>> : pr \in f}
    ELSE CHOOSE r \in {IF n % 2 = 1 THEN Compose14(gh[1], gh[2]) ELSE gh[2] :
                          gh \in UNION {{<<g, Power14(g2, n \div 2)>> :
                                           g2 \in {Compose14(g, g)}} : g \in {f}}} : TRUE

AfterCycles14(puzzle, n) ==
    CHOOSE r \in {Apply14(Power14(f, n), puzzle) :
                     f \in {{<<q, tilting_cycle(q)>> : q \in Orbit14(puzzle, {})}}} : TRUE

\* C2: part2 ends on the platform that num_operations tilting cycles make of
\* the parsed platform, and returns its load.
C2_Part2IsNthCycle ==
    day14.pc = "done" =>
        /\ day14.puzzle = AfterCycles14(day14.parsed, day14.num_operations)
        /\ day14.num_operations <= MaxOps14 =>
              day14.puzzle = TiltTimes14(day14.parsed, day14.num_operations)
        /\ day14.result = load(day14.puzzle)

\* C2 witness: a run of 1,000,000,000 cycles that found a cycle of a length
\* above 1 and had cycles left to run after the detection.
C2_Witness ==
    /\ day14.pc = "done"
    /\ day14.num_operations = NumOperations14
    /\ \E q \in DOMAIN day14.seen_at_iteration :
          /\ day14.seen_at_iteration[q] = day14.i
          /\ tilting_cycle(q) # q
          /\ day14.puzzle # q

(***************************************************************************)
(* Day 5: Map::combine, Puzzle::compress, seeds_to_ranges, min_for_seeds   *)
(***************************************************************************)
\* Bound: a puzzle holds 1..MaxMaps5 maps.
MaxMaps5 == 2

\* Bound: a map holds 0..MaxEntries5 entries.
MaxEntries5 == 2

\* Bound: the source range starts drawn are 0..MaxStart5.
MaxStart5 == 2

\* Bound: the range lengths drawn are 0..MaxLen5.
MaxLen5 == 2

\* The destination range starts drawn.
Dests5 == {0, 3}

\* The seeds lines drawn: as single seeds (part1) or as (start, length)
\* pairs (part2).
SeedLines5 == {<<2>>, <<0, 3>>, <<1, 4>>}

\* The values the maps are compared on.
Values5 == 0 .. (MaxStart5 + MaxLen5 + 4)

\* IntervalMapping::from_line
from_line(dest, a, range_len) == [a |-> a, b |-> a + range_len, dest |-> dest]

contains(m, x) == x >= m.a /\ x < m.b

\* IntervalMapping::apply; an Option is the set of its values.
IntervalApply(m, x) == IF contains(m, x) THEN {m.dest + (x - m.a)} ELSE {}

source_overlaps(m, other) == contains(m, other.a) \/ contains(other, m.a)

\* derive(Ord) for IntervalMapping: by a, then b, then dest.
IntervalLess(m, n) ==
    \/ m.a < n.a
    \/ m.a = n.a /\ m.b < n.b
    \/ m.a = n.a /\ m.b = n.b /\ m.dest < n.dest

RECURSIVE SortIntervals(_)
\* Vec::sort
SortIntervals(seq) ==
    IF Len(seq) <= 1 THEN seq
    ELSE LET k == CHOOSE i \in 1 .. Len(seq) :
                     \A j \in 1 .. Len(seq) : ~IntervalLess(seq[j], seq[i])
         IN  <<seq[k]>> \o SortIntervals(SubSeq(seq, 1, k - 1) \o SubSeq(seq, k + 1, Len(seq)))

\* The entry lists entries_from_iter_until_end_of_block accepts: no entry's
\* source overlaps that of an entry read before it.  The lists are drawn in
\* ascending order; the order of the lines of a block decides no result.
EntryLists5 ==
    LET lines == {from_line(d, a, l) : d \in Dests5, a \in 0 .. MaxStart5, l \in 0 .. MaxLen5}
        accepted(n) == {es \in [(1 .. n) -> lines] :
                          /\ \A i \in 1 .. n : \A j \in 1 .. i - 1 :
                                ~source_overlaps(es[i], es[j])
                          /\ \A i \in 1 .. n - 1 : IntervalLess(es[i], es[i + 1])}
    IN  UNION {{es : es \in accepted(n)} : n \in 0 .. MaxEntries5}

\* The type names of a chain of maps: seed, then one name per map.
TypeName5(k) == IF k = 0 THEN "seed" ELSE <<"soil", "fertilizer", "water", "light">>[k]

\* The puzzle Puzzle::from_input builds of a seeds line and the entry lists
\* of a chain of maps.
Puzzle5(seeds, es) ==
    [seeds |-> seeds,
     maps |-> [k \in 1 .. Len(es) |-> [from_type |-> TypeName5(k - 1),
                                       to_type |-> TypeName5(k),
                                       entries |-> es[k]]]]

RECURSIVE FillLoop(_, _, _, _)
\* The for loop of fill_holes.
FillLoop(sorted_mappings, i, a, result) ==
    IF i > Len(sorted_mappings) THEN result
    ELSE LET mapping == sorted_mappings[i]
         IN  FillLoop(sorted_mappings, i + 1, mapping.b,
                      IF mapping.a > a
                      THEN result \o <<[a |-> a, b |-> mapping.a, dest |-> a], mapping>>
                      ELSE Append(result, mapping))

fill_holes(sorted_mappings, max_b) ==
    LET result == FillLoop(sorted_mappings, 1, 0, <<>>)
    IN  IF result # <<>> /\ result[Len(result)].b < max_b
        THEN Append(result, [a |-> result[Len(result)].b, b |-> max_b,
                             dest |-> result[Len(result)].b])
        ELSE result

\* other_intervals.iter().find(|g| g.contains(fa)): the set of the first
\* such g, empty if there is none.
FindContaining(other_intervals, fa) ==
    LET hits == {i \in 1 .. Len(other_intervals) : contains(other_intervals[i], fa)}
    IN  IF hits = {} THEN {} ELSE {other_intervals[Min(hits)]}

RECURSIVE CombineWhile(_, _, _, _)
\* The while loop of combine for one f, from a on: the entries pushed, and
\* whether f.apply(a).unwrap() found None and panicked.
CombineWhile(f, a, other_intervals, entries) ==
    IF IntervalApply(f, a) = {} THEN [panic |-> TRUE, entries |-> entries]
    ELSE LET fa == CHOOSE y \in IntervalApply(f, a) : TRUE
             found == FindContaining(other_intervals, fa)
         IN  IF found = {}
             THEN [panic |-> FALSE,
                   entries |-> Append(entries, [a |-> a, b |-> f.b, dest |-> fa])]
             ELSE LET g == CHOOSE m \in found : TRUE
                      dest == CHOOSE y \in IntervalApply(g, fa) : TRUE
                      x == a + (g.b - fa)
                  IN  IF x < f.b
                      THEN CombineWhile(f, x, other_intervals,
                                        Append(entries, [a |-> a, b |-> x, dest |-> dest]))
                      ELSE [panic |-> FALSE,
                            entries |-> Append(entries, [a |-> a, b |-> f.b, dest |-> dest])]

RECURSIVE CombineOuter(_, _, _, _, _)
\* The 'outer loop of combine; it panics when assert_eq!(a, f.a) or an
\* unwrap fails.
CombineOuter(self_intervals, i, a, other_intervals, entries) ==
    IF i > Len(self_intervals) THEN [panic |-> FALSE, entries |-> entries]
    ELSE LET f == self_intervals[i]
         IN  IF a # f.a THEN [panic |-> TRUE, entries |-> entries]
             ELSE LET pushed == CombineWhile(f, a, other_intervals, entries)
                  IN  IF pushed.panic THEN pushed
                      ELSE CombineOuter(self_intervals, i + 1, f.b, other_intervals,
                                        pushed.entries)

LastB(intervals) == IF intervals = <<>> THEN 0 ELSE intervals[Len(intervals)].b

\* Map::combine: the combined map, and whether the call panicked.
combine(self, other) ==
    LET self_sorted == SortIntervals(self.entries)
        other_sorted == SortIntervals(other.entries)
        max_b == Max({LastB(self_sorted), LastB(other_sorted)})
        looped == CombineOuter(fill_holes(self_sorted, max_b), 1, 0,
                               fill_holes(other_sorted, max_b), <<>>)
    IN  [panic |-> self.to_type # other.from_type \/ looped.panic,
         map |-> [from_type |-> self.from_type, to_type |-> other.to_type,
                  entries |-> looped.entries]]

\* Map::apply
MapApply(map, x) ==
    LET hits == {i \in 1 .. Len(map.entries) : contains(map.entries[i], x)}
    IN  IF hits = {} THEN x
        ELSE CHOOSE y \in IntervalApply(map.entries[Min(hits)], x) : TRUE

RECURSIVE RangesLoop(_, _, _, _)
\* The while loop of seeds_to_ranges over the (start, length) pairs: the
\* seeds kept, and whether a start had no length (an Err).
RangesLoop(seeds, i, map, result) ==
    IF i > Len(seeds) THEN [error |-> FALSE, seeds |-> result]
    ELSE IF i + 1 > Len(seeds) THEN [error |-> TRUE, seeds |-> result]
         ELSE LET interval == [a |-> seeds[i], b |-> seeds[i] + seeds[i + 1], dest |-> 0]
                  inside == SelectSeq(map.entries, LAMBDA m : contains(interval, m.a))
              IN  RangesLoop(seeds, i + 2, map,
                             (result \o [k \in 1 .. Len(inside) |-> inside[k].a])
                                 \o <<interval.a>>)

seeds_to_ranges(seeds, map) == RangesLoop(seeds, 1, map, <<>>)

RECURSIVE ApplyMaps(_, _, _)
\* The inner loop of min_for_seeds: the maps applied in turn.
ApplyMaps(maps, k, value) ==
    IF k > Len(maps) THEN value ELSE ApplyMaps(maps, k + 1, MapApply(maps[k], value))

\* The type check of min_for_seeds: every map takes the type the one before
\* it (or "seed") gives.
TypesChain(maps) ==
    \A k \in 1 .. Len(maps) :
        maps[k].from_type = (IF k = 1 THEN "seed" ELSE maps[k - 1].to_type)

\* The variables of the other programs.
Others5 == <<day17, day14, day19, day10, day18, day22, day11, day1, day9>>

Day5Init ==
    /\ \E n \in 1 .. MaxMaps5 : \E es \in [(1 .. n) -> EntryLists5] :
       \E seeds \in SeedLines5 : \E part \in {1, 2} :
       \E puzzle \in {Puzzle5(seeds, es)} :
          day5 = [pc |-> "compress", part |-> part, input |-> puzzle,
                  seeds |-> puzzle.seeds,
                  maps |-> SubSeq(puzzle.maps, 1, Len(puzzle.maps) - 1),
                  x |-> puzzle.maps[Len(puzzle.maps)],
                  next |-> puzzle.maps[Len(puzzle.maps)],
                  prev_x |-> puzzle.maps[Len(puzzle.maps)],
                  result |-> 0]
    /\ day17 = Idle /\ day14 = Idle /\ day19 = Idle /\ day10 = Idle
    /\ day18 = Idle /\ day22 = Idle
    /\ day11 = Idle /\ day1 = Idle /\ day9 = Idle

\* One iteration of the while loop of compress: the last map left is popped
\* and combined with x.
Day5Combine ==
    /\ day5.pc = "compress"
    /\ day5.maps # <<>>
    /\ \E next \in {day5.maps[Len(day5.maps)]} : \E combined \in {combine(next, day5.x)} :
          day5' = [day5 EXCEPT !.pc = IF combined.panic THEN "panic" ELSE "compress",
                               !.next = next, !.prev_x = day5.x,
                               !.x = combined.map,
                               !.maps = SubSeq(day5.maps, 1, Len(day5.maps) - 1)]
    /\ UNCHANGED Others5

\* The end of compress: x is pushed as the only map.
Day5Compressed ==
    /\ day5.pc = "compress"
    /\ day5.maps = <<>>
    /\ day5' = [day5 EXCEPT !.maps = <<day5.x>>,
                            !.pc = IF day5.part = 2 THEN "ranges" ELSE "min"]
    /\ UNCHANGED Others5

\* part2: seeds_to_ranges
Day5SeedsToRanges ==
    /\ day5.pc = "ranges"
    /\ \E ranges \in {seeds_to_ranges(day5.seeds, day5.maps[1])} :
          day5' = [day5 EXCEPT !.pc = IF ranges.error THEN "error" ELSE "min",
                               !.seeds = ranges.seeds]
    /\ UNCHANGED Others5

\* min_for_seeds: the least value the maps make of a seed; an error for a
\* map of the wrong type or for no seed at all.
Day5MinForSeeds ==
    /\ day5.pc = "min"
    /\ IF day5.seeds = <<>> \/ ~TypesChain(day5.maps)
       THEN day5' = [day5 EXCEPT !.pc = "error"]
       ELSE day5' = [day5 EXCEPT
                        !.pc = "done",
                        !.result = Min({ApplyMaps(day5.maps, 1, day5.seeds[k]) :
                                           k \in 1 .. Len(day5.seeds)})]
    /\ UNCHANGED Others5

Day5Next == Day5Combine \/ Day5Compressed \/ Day5SeedsToRanges \/ Day5MinForSeeds

Spec5 == Day5Init /\ [][Day5Next]_vars

\* The seeds of the (start, length) pairs of a seeds line.
RECURSIVE SeedsOfRanges5(_, _)
SeedsOfRanges5(seeds, i) ==
    IF i + 1 > Len(seeds) THEN {}
    ELSE (seeds[i] .. (seeds[i] + seeds[i + 1] - 1)) \cup SeedsOfRanges5(seeds, i + 2)

\* C3: whenever compress has combined a map f (next) with the map g it held
\* (prev_x), the call returned and the combined map sends every value x to
\* g.apply(f.apply(x)), so that the map compress is left with sends every
\* value where the maps it folded send it, one after the other.
C3_CombineIsComposition ==
    (day5.pc \in {"compress", "panic"} /\ Len(day5.maps) + 1 < Len(day5.input.maps)) =>
        /\ day5.pc # "panic"
        /\ \A v \in Values5 :
              MapApply(day5.x, v) = MapApply(day5.prev_x, MapApply(day5.next, v))
        /\ \A v \in Values5 :
              MapApply(day5.x, v)
                 = ApplyMaps(day5.input.maps, Len(day5.maps) + 1, v)

\* C4: the value part2 returns, the least the compressed map makes of the
\* seeds seeds_to_ranges keeps, is the least it makes of any seed of the
\* ranges.
C4_Part2IsMinimumOverRanges ==
    (day5.pc = "done" /\ day5.part = 2) =>
        day5.result = Min({MapApply(day5.maps[1], seed) :
                              seed \in SeedsOfRanges5(day5.input.seeds, 1)})

(***************************************************************************)
(* Day 19: Puzzle::part_accepted and Puzzle::possibilities                 *)
(***************************************************************************)
\* Bound: the ratings are 1..=MaxRating19; it stands for the 4000 of
\* possibilities, whose fourth power is beyond the integers of the checker.
MaxRating19 == 3

\* Bound: a workflow holds 1..MaxRules19 rules.
MaxRules19 == 2

\* The u64 of possibilities is kept as an integer modulo U64Modulus19.
U64Modulus19 == 32768

\* Category::X, M, A, S as the index into Part::ratings.
Categories19 == 1 .. 4

\* The (category, threshold) pairs the rules drawn compare.
RuleTests19 == {<<1, 0>>, <<1, 2>>, <<2, 1>>}

\* Rule::try_from: the rules drawn, with their next workflow among nexts.
Rules19(nexts) ==
    {[kind |-> "Jump", lhs |-> 1, rhs |-> 0, next |-> n] : n \in nexts}
       \cup {[kind |-> k, lhs |-> t[1], rhs |-> t[2], next |-> n] :
                k \in {"Greater", "Less"}, t \in RuleTests19, n \in nexts}

\* The rule lists read_rules builds.
RuleLists19(nexts) ==
    UNION {{rs : rs \in [(1 .. n) -> Rules19(nexts)]} : n \in 1 .. MaxRules19}

\* read_workflows: the workflow map of the "in" rules and of the rules of a
\* second workflow "b" (<<>> for no second workflow), with "A" and "R"
\* inserted.
read_workflows(in_rules, b_rules) ==
    [name \in {"in", "A", "R"} \cup (IF b_rules = <<>> THEN {} ELSE {"b"}) |->
        IF name = "in" THEN in_rules
        ELSE IF name = "b" THEN b_rules
        ELSE <<>>]

\* Part::get_rating
get_rating(part, category) == part[category]

\* The first rule of a workflow that sends the part on: rule.next for a
\* Jump, for a Greater with rating > rhs and for a Less with rating < rhs;
\* the empty set if the for loop ends without a break.
FirstMatch19(rules, part) ==
    LET hits == {i \in 1 .. Len(rules) :
                    \/ rules[i].kind = "Jump"
                    \/ rules[i].kind = "Greater" /\ get_rating(part, rules[i].lhs) > rules[i].rhs
                    \/ rules[i].kind = "Less" /\ get_rating(part, rules[i].lhs) < rules[i].rhs}
    IN  IF hits = {} THEN {} ELSE {rules[Min(hits)].next}

RECURSIVE AcceptedLoop(_, _, _, _)
\* The loop of part_accepted from a workflow on: "true", "false", "panic"
\* for an unknown workflow, "loop" if the loop never ends (no rule of the
\* workflow sends the part on, or the workflows go round).
AcceptedLoop(workflows, name, part, fuel) ==
    IF name = "A" THEN "true"
    ELSE IF name = "R" THEN "false"
    ELSE IF fuel = 0 THEN "loop"
    ELSE LET next == FirstMatch19(workflows[name], part)
         IN  IF next = {} THEN "loop"
             ELSE IF next \subseteq DOMAIN workflows
                  THEN AcceptedLoop(workflows, CHOOSE n \in next : TRUE, part, fuel - 1)
                  ELSE "panic"

part_accepted(workflows, part) ==
    AcceptedLoop(workflows, "in", part, Cardinality(DOMAIN workflows))

\* xn[1] >= xn[0] && mn[1] >= mn[0] && an[1] >= an[0] && sn[1] >= sn[0]
NonEmpty19(ranges) == \A c \in Categories19 : ranges[c][2] >= ranges[c][1]

RECURSIVE RulesLoop19(_, _, _, _, _, _)
\* The for loop over the rules of the workflow popped: the entries pushed
\* in order, and whether it panicked (an unknown workflow, or rhs - 1 below
\* zero in a build with overflow checks).
RulesLoop19(workflows, rules, i, ranges, pushed, overflow_checks) ==
    IF i > Len(rules) THEN [panic |-> FALSE, pushed |-> pushed]
    ELSE LET rule == rules[i]
             known == rule.next \in DOMAIN workflows
         IN  IF rule.kind = "Jump"
             THEN IF ~known THEN [panic |-> TRUE, pushed |-> pushed]
                  ELSE RulesLoop19(workflows, rules, i + 1, ranges,
                                   Append(pushed, [workflow |-> rule.next, ranges |-> ranges]),
                                   overflow_checks)
             ELSE IF rule.kind = "Greater"
             THEN LET next_ranges == [ranges EXCEPT ![rule.lhs][1] = rule.rhs + 1]
                      rest_ranges == [ranges EXCEPT ![rule.lhs][2] = rule.rhs]
                  IN  IF NonEmpty19(next_ranges) /\ ~known
                      THEN [panic |-> TRUE, pushed |-> pushed]
                      ELSE RulesLoop19(workflows, rules, i + 1, rest_ranges,
                                       IF NonEmpty19(next_ranges)
                                       THEN Append(pushed, [workflow |-> rule.next,
                                                            ranges |-> next_ranges])
                                       ELSE pushed,
                                       overflow_checks)
             ELSE IF rule.rhs = 0 /\ overflow_checks
             THEN [panic |-> TRUE, pushed |-> pushed]
             ELSE LET next_ranges ==
                          [ranges EXCEPT ![rule.lhs][2] = (rule.rhs - 1) % U64Modulus19]
                      rest_ranges == [ranges EXCEPT ![rule.lhs][1] = rule.rhs]
                  IN  IF NonEmpty19(next_ranges) /\ ~known
                      THEN [panic |-> TRUE, pushed |-> pushed]
                      ELSE RulesLoop19(workflows, rules, i + 1, rest_ranges,
                                       IF NonEmpty19(next_ranges)
                                       THEN Append(pushed, [workflow |-> rule.next,
                                                            ranges |-> next_ranges])
                                       ELSE pushed,
                                       overflow_checks)

\* x[1] - x[0] + 1 in u64
RangeSize19(range) == (range[2] - range[1] + 1) % U64Modulus19

\* (x[1] - x[0] + 1) * (m[1] - m[0] + 1) * (a[1] - a[0] + 1) * (s[1] - s[0] + 1)
Product19(ranges) ==
    (((((RangeSize19(ranges[1]) * RangeSize19(ranges[2])) % U64Modulus19)
          * RangeSize19(ranges[3])) % U64Modulus19)
        * RangeSize19(ranges[4])) % U64Modulus19

\* The variables of the other programs.
Others19 == <<day17, day14, day5, day10, day18, day22, day11, day1, day9>>

Day19Init ==
    /\ \E in_rules \in RuleLists19({"A", "R", "b"}) :
       \E b_rules \in RuleLists19({"A", "R"}) \cup {<<>>} :
       \E overflow_checks \in BOOLEAN :
          day19 = [pc |-> "while",
                   workflows |-> read_workflows(in_rules, b_rules),
                   overflow_checks |-> overflow_checks,
                   stack |-> <<[workflow |-> "in",
                                ranges |-> [c \in Categories19 |-> <<1, MaxRating19>>]]>>,
                   sum |-> 0,
                   result |-> 0]
    /\ day17 = Idle /\ day14 = Idle /\ day5 = Idle /\ day10 = Idle
    /\ day18 = Idle /\ day22 = Idle
    /\ day11 = Idle /\ day1 = Idle /\ day9 = Idle

\* The entry on top of the stack.
Top19 == day19.stack[Len(day19.stack)]

\* The stack without its top.
Popped19 == SubSeq(day19.stack, 1, Len(day19.stack) - 1)

\* An iteration of the while loop that pops "R".
Day19PopR ==
    /\ day19.pc = "while" /\ day19.stack # <<>>
    /\ Top19.workflow = "R"
    /\ day19' = [day19 EXCEPT !.stack = Popped19]
    /\ UNCHANGED Others19

\* An iteration of the while loop that pops "A": the product of the range
\* sizes is added to sum; a range with x[1] < x[0] panics in a build with
\* overflow checks, as does a sum or product beyond u64.
Day19PopA ==
    /\ day19.pc = "while" /\ day19.stack # <<>>
    /\ Top19.workflow = "A"
    /\ IF day19.overflow_checks /\ ~NonEmpty19(Top19.ranges)
       THEN day19' = [day19 EXCEPT !.pc = "panic", !.stack = Popped19]
       ELSE day19' = [day19 EXCEPT
                        !.stack = Popped19,
                        !.sum = (day19.sum + Product19(Top19.ranges)) % U64Modulus19]
    /\ UNCHANGED Others19

\* An iteration of the while loop that pops another workflow and goes
\* through its rules.
Day19PopRules ==
    /\ day19.pc = "while" /\ day19.stack # <<>>
    /\ Top19.workflow \notin {"A", "R"}
    /\ \E looped \in {RulesLoop19(day19.workflows, day19.workflows[Top19.workflow], 1,
                                  Top19.ranges, <<>>, day19.overflow_checks)} :
          day19' = [day19 EXCEPT !.pc = IF looped.panic THEN "panic" ELSE "while",
                                 !.stack = Popped19 \o looped.pushed]
    /\ UNCHANGED Others19

\* The stack is empty: possibilities returns sum.
Day19Return ==
    /\ day19.pc = "while" /\ day19.stack = <<>>
    /\ day19' = [day19 EXCEPT !.pc = "done", !.result = day19.sum]
    /\ UNCHANGED Others19

Day19Next == Day19PopR \/ Day19PopA \/ Day19PopRules \/ Day19Return

Spec19 == Day19Init /\ [][Day19Next]_vars

\* The rating tuples (x, m, a, s).
Parts19 == [Categories19 -> 1 .. MaxRating19]

\* C5: the number possibilities returns is the number of rating tuples for
\* which part_accepted returns true on the same workflows.
C5_PossibilitiesCountsAccepted ==
    day19.pc = "done" =>
        day19.result = Cardinality({part \in Parts19 :
                                       part_accepted(day19.workflows, part) = "true"})

(***************************************************************************)
(* Day 10: Puzzle::from_input, get_cycle, cycle_length, area_in_cycle      *)
(***************************************************************************)
\* Bound: the grids drawn have at most MaxCells10 tiles.
MaxCells10 == 12

\* Bound: the grids drawn have at most MaxSide10 rows and columns.
MaxSide10 == 4

\* Tile, without Start
Tiles10 == {"NS", "EW", "NE", "NW", "SW", "SE", "Ground"}

connects_up(tile) == tile \in {"NS", "NE", "NW"}

connects_down(tile) == tile \in {"NS", "SE", "SW"}

connects_left(tile) == tile \in {"EW", "SW", "NW"}

connects_right(tile) == tile \in {"EW", "SE", "NE"}

\* Tile::neighbors for a pipe tile; a coordinate of -1 is a subtraction
\* below zero.
neighbors(tile, x, y) ==
    CASE tile = "NS" -> <<(<<x, y - 1>>), (<<x, y + 1>>)>>
      [] tile = "EW" -> <<(<<x + 1, y>>), (<<x - 1, y>>)>>
      [] tile = "NE" -> <<(<<x, y - 1>>), (<<x + 1, y>>)>>
      [] tile = "NW" -> <<(<<x, y - 1>>), (<<x - 1, y>>)>>
      [] tile = "SW" -> <<(<<x, y + 1>>), (<<x - 1, y>>)>>
      [] tile = "SE" -> <<(<<x + 1, y>>), (<<x, y + 1>>)>>

\* A usize subtraction without overflow checks wraps round.
WrapUsize(pos) ==
    <<IF pos[1] < 0 THEN UsizeMax ELSE pos[1], IF pos[2] < 0 THEN UsizeMax ELSE pos[2]>>

\* Whether tile fits as cell k (counted by rows from 1) of a width x height
\* grid after the cells g: its west and north ends meet those of the cells
\* before it, and no end leaves the grid to the east or south.
Fits10(g, tile, width, height, k) ==
    LET x == (k - 1) % width
        y == (k - 1) \div width
    IN  /\ connects_left(tile) = (x > 0 /\ connects_right(g[k - 1]))
        /\ connects_up(tile) = (y > 0 /\ connects_down(g[k - width]))
        /\ x = width - 1 => ~connects_right(tile)
        /\ y = height - 1 => ~connects_down(tile)

RECURSIVE ClosedCells10(_, _, _)
\* The first k cells of the grids whose pipes all form closed loops.
ClosedCells10(width, height, k) ==
    IF k = 0 THEN {<<>>}
    ELSE {Append(c[1], c[2]) :
             c \in {d \in ClosedCells10(width, height, k - 1) \X Tiles10 :
                       Fits10(d[1], d[2], width, height, k)}}

\* The inputs drawn: a grid g of closed pipe loops with S in the place of
\* its pipe tile k and any tile in the place of another tile j (its own
\* tile leaves g as it is).
Input10(g, k, j, tile) == [g EXCEPT ![k] = "Start", ![j] = tile]

\* read_row for every line: the rows of a grid given cell by cell.
read_rows(cells, width, height) ==
    [r \in 1 .. height |-> [c \in 1 .. width |-> cells[(r - 1) * width + c]]]

\* update_start_position: the (x, y) of the Start tile.
start_position(rows, width, height) ==
    CHOOSE pos \in (0 .. width - 1) \X (0 .. height - 1) :
        rows[pos[2] + 1][pos[1] + 1] = "Start"

\* infer_starting_tile: the candidates in the order they are pushed.
infer_starting_tile(rows, width, height, x, y) ==
    LET up == y > 0 /\ connects_down(rows[y][x + 1])
        down == y + 1 < height /\ connects_up(rows[y + 2][x + 1])
        left == x > 0 /\ connects_right(rows[y + 1][x])
        right == x + 1 < width /\ connects_left(rows[y + 1][x + 2])
    IN  (IF up /\ down THEN <<"NS">> ELSE <<>>)
           \o (IF up /\ left THEN <<"NW">> ELSE <<>>)
           \o (IF up /\ right THEN <<"NE">> ELSE <<>>)
           \o (IF down /\ left THEN <<"SW">> ELSE <<>>)
           \o (IF down /\ right THEN <<"SE">> ELSE <<>>)
           \o (IF left /\ right THEN <<"EW">> ELSE <<>>)

\* y1.cmp(y2).then(x1.cmp(x2))
CycleLess(p, q) == p[2] < q[2] \/ (p[2] = q[2] /\ p[1] < q[1])

RECURSIVE SortCycle(_)
\* cycle.sort_by
SortCycle(cycle) ==
    IF Len(cycle) <= 1 THEN cycle
    ELSE LET k == CHOOSE i \in 1 .. Len(cycle) :
                     \A j \in 1 .. Len(cycle) : ~CycleLess(cycle[j], cycle[i])
         IN  <<cycle[k]>>
                \o SortCycle(SubSeq(cycle, 1, k - 1) \o SubSeq(cycle, k + 1, Len(cycle)))

\* A mutant of FlipsInside: every closing corner flips.
FlipsInsideAtEveryCorner(tile, last_angle_read) ==
    \/ tile = "NS"
    \/ tile = "NW" /\ last_angle_read \in {"SE", "NE"}
    \/ tile = "SW" /\ last_angle_read \in {"NE", "SE"}

\* Whether the match on a tile of the cycle flips inside.
FlipsInside(tile, last_angle_read) ==
    \/ tile = "NS"
    \/ tile = "NW" /\ last_angle_read = "SE"
    \/ tile = "SW" /\ last_angle_read = "NE"

\* One iteration of the inner loop of area_in_cycle, at cell k (from 0).
ScanStep(scan, rows, width, sorted, k) ==
    LET x == k % width
        y == k \div width
        tile == rows[y + 1][x + 1]
        inside == IF x = 0 THEN FALSE ELSE scan.inside
        last_angle_read == IF x = 0 THEN "None" ELSE scan.last_angle_read
    IN  IF scan.returned THEN scan
        ELSE IF <<x, y>> = sorted[scan.next]
        THEN [returned |-> scan.next = Len(sorted),
              next |-> IF scan.next = Len(sorted) THEN scan.next ELSE scan.next + 1,
              inside |-> IF FlipsInside(tile, last_angle_read) THEN ~inside ELSE inside,
              last_angle_read |-> IF tile \in {"NE", "NW", "SW", "SE"}
                                  THEN tile ELSE last_angle_read,
              area |-> scan.area,
              flips |-> IF FlipsInside(tile, last_angle_read)
                        THEN scan.flips \cup {<<x, y>>} ELSE scan.flips]
        ELSE [scan EXCEPT !.inside = inside, !.last_angle_read = last_angle_read,
                          !.area = IF inside THEN scan.area + 1 ELSE scan.area]

RECURSIVE ScanLoop(_, _, _, _)
\* The loops of area_in_cycle over the first k cells.
ScanLoop(rows, width, sorted, k) ==
    IF k = 0
    THEN [returned |-> FALSE, next |-> 1, inside |-> FALSE, last_angle_read |-> "None",
          area |-> 0, flips |-> {}]
    ELSE CHOOSE after \in {ScanStep(scan, rows, width, sorted, k - 1) :
                              scan \in {ScanLoop(rows, width, sorted, k - 1)}} : TRUE

\* area_in_cycle after get_cycle: the record of the scan, with the area
\* returned and the places where inside was flipped.  The tiles of the
\* cycle are pipes, as get_cycle panics on any other.
area_in_cycle(rows, width, height, cycle) ==
    ScanLoop(rows, width, SortCycle(SubSeq(cycle, 1, Len(cycle) - 1)), width * height)

\* The variables of the other programs.
Others10 == <<day17, day14, day5, day19, day18, day22, day11, day1, day9>>

Day10Init ==
    /\ \E width \in 1 .. MaxSide10 :
       \E height \in 1 .. Min({MaxSide10, MaxCells10 \div width}) :
       \E g \in ClosedCells10(width, height, width * height) :
       \E k \in {i \in 1 .. Len(g) : g[i] # "Ground"} :
       \E j \in (1 .. Len(g)) \ {k} : \E tile \in Tiles10 :
       \E rows \in {read_rows(Input10(g, k, j, tile), width, height)} :
       \E start \in {start_position(rows, width, height)} :
          day10 = [pc |-> "from_input", width |-> width, height |-> height,
                   rows |-> rows, start_col |-> start[1], start_row |-> start[2],
                   x |-> start[1], y |-> start[2],
                   prev_x |-> start[1], prev_y |-> start[2],
                   cycle |-> <<start>>, part |-> 0, result |-> 0, flips |-> {}]
    /\ day17 = Idle /\ day14 = Idle /\ day5 = Idle /\ day19 = Idle
    /\ day18 = Idle /\ day22 = Idle
    /\ day11 = Idle /\ day1 = Idle /\ day9 = Idle

\* The end of from_input: the start tile is inferred; an Err unless there
\* is one candidate.
Day10FromInput ==
    /\ day10.pc = "from_input"
    /\ \E candidates \in {infer_starting_tile(day10.rows, day10.width, day10.height,
                                              day10.start_col, day10.start_row)} :
          IF Len(candidates) # 1
          THEN day10' = [day10 EXCEPT !.pc = "error"]
          ELSE day10' = [day10 EXCEPT
                           !.pc = "get_cycle",
                           !.rows[day10.start_row + 1][day10.start_col + 1] = candidates[1]]
    /\ UNCHANGED Others10

\* One iteration of the loop of get_cycle.  It panics when (x, y) is not in
\* the grid and when the tile there is no pipe.  When a neighbour has a
\* coordinate below zero, the subtraction panics in a build with overflow
\* checks and wraps round in one without: both outcomes are taken.  A walk
\* that comes to a (previous, current) pair it has been at never ends: pc
\* "loops".
Day10GetCycleStep ==
    /\ day10.pc = "get_cycle"
    /\ IF ~(day10.x \in 0 .. day10.width - 1 /\ day10.y \in 0 .. day10.height - 1)
       THEN day10' = [day10 EXCEPT !.pc = "panic"]
       ELSE \E tile \in {day10.rows[day10.y + 1][day10.x + 1]} :
            IF tile \in {"Ground", "Start"}
            THEN day10' = [day10 EXCEPT !.pc = "panic"]
            ELSE \E around \in {neighbors(tile, day10.x, day10.y)} :
                 \/ /\ \E i \in 1 .. 2 : around[i][1] < 0 \/ around[i][2] < 0
                    /\ day10' = [day10 EXCEPT !.pc = "panic"]
                 \/ \E next \in {IF WrapUsize(around[1]) = <<day10.prev_x, day10.prev_y>>
                                 THEN WrapUsize(around[2]) ELSE WrapUsize(around[1])} :
                      day10' = [day10 EXCEPT
                                  !.prev_x = day10.x, !.prev_y = day10.y,
                                  !.x = next[1], !.y = next[2],
                                  !.cycle = Append(day10.cycle, next),
                                  !.pc = IF next = <<day10.start_col, day10.start_row>>
                                         THEN "cycle"
                                         ELSE IF \E i \in 1 .. Len(day10.cycle) - 1 :
                                                    /\ day10.cycle[i] = <<day10.x, day10.y>>
                                                    /\ day10.cycle[i + 1] = next
                                              THEN "loops"
                                              ELSE "get_cycle"]
    /\ UNCHANGED Others10

\* part1: cycle_length() / 2
Day10Part1 ==
    /\ day10.pc = "cycle"
    /\ day10' = [day10 EXCEPT !.pc = "done", !.part = 1,
                              !.result = (Len(day10.cycle) - 1) \div 2]
    /\ UNCHANGED Others10

\* part2: area_in_cycle()
Day10Part2 ==
    /\ day10.pc = "cycle"
    /\ \E scan \in {area_in_cycle(day10.rows, day10.width, day10.height, day10.cycle)} :
          day10' = [day10 EXCEPT !.pc = "done", !.part = 2,
                                 !.result = scan.area, !.flips = scan.flips]
    /\ UNCHANGED Others10

Day10Next == Day10FromInput \/ Day10GetCycleStep \/ Day10Part1 \/ Day10Part2

Spec10 == Day10Init /\ [][Day10Next]_vars

\* The places a pipe tile of the grid leads to.
PipeEnds10(d, pos) ==
    LET tile == d.rows[pos[2] + 1][pos[1] + 1]
    IN  IF tile \in {"Ground", "Start"} THEN {}
        ELSE {neighbors(tile, pos[1], pos[2])[i] : i \in 1 .. 2}

InGrid10(d, pos) == pos[1] \in 0 .. d.width - 1 /\ pos[2] \in 0 .. d.height - 1

\* The tiles of the grid joined to pos: each leads to the other.
Joined10(d, pos) ==
    {q \in PipeEnds10(d, pos) : InGrid10(d, q) /\ pos \in PipeEnds10(d, q)}

RECURSIVE Grow10(_, _, _)
\* The tiles joined, through any number of tiles, to those of frontier.
Grow10(d, frontier, seen) ==
    IF frontier = {} THEN seen
    ELSE CHOOSE all \in {Grow10(d, new, seen \cup new) :
                            new \in {UNION {Joined10(d, pos) : pos \in frontier} \ seen}} :
            TRUE

\* The pipe S is part of, and whether it is a closed loop: every end of
\* every tile of it is joined to a tile.
LoopOfStart10(d) ==
    Grow10(d, {<<d.start_col, d.start_row>>}, {<<d.start_col, d.start_row>>})

StartOnClosedLoop10(d) ==
    \A pos \in LoopOfStart10(d) :
        /\ PipeEnds10(d, pos) # {}
        /\ PipeEnds10(d, pos) = Joined10(d, pos)

\* The grid at twice the scale, with a margin: tile (x, y) is the point
\* (2x + 1, 2y + 1), and the points between two tiles are free unless a
\* pipe of the loop joins the two.
Points10(d) == (0 .. 2 * d.width) \X (0 .. 2 * d.height)

Walls10(d, loop) ==
    {<<2 * pos[1] + 1, 2 * pos[2] + 1>> : pos \in loop}
       \cup UNION {{<<pos[1] + q[1] + 1, pos[2] + q[2] + 1>> : q \in Joined10(d, pos)} :
                   pos \in loop}

Beside10(point) ==
    {<<point[1] + 1, point[2]>>, <<point[1] - 1, point[2]>>,
     <<point[1], point[2] + 1>>, <<point[1], point[2] - 1>>}

RECURSIVE Flood10(_, _, _)
\* The points of free that can be reached from frontier.
Flood10(free, frontier, seen) ==
    IF frontier = {} THEN seen
    ELSE CHOOSE all \in {Flood10(free, new, seen \cup new) :
                            new \in {(UNION {Beside10(point) : point \in frontier}
                                         \cap free) \ seen}} :
            TRUE

\* The tiles that are not part of the loop of S and cannot be reached from
\* the margin, not even between two pipes next to each other.
Enclosed10(d) ==
    LET inner(loop, outside) ==
            {pos \in (0 .. d.width - 1) \X (0 .. d.height - 1) :
                pos \notin loop /\ <<2 * pos[1] + 1, 2 * pos[2] + 1>> \notin outside}
        outer(loop, free, margin) == inner(loop, Flood10(free, margin, margin))
        margin == {point \in Points10(d) :
                      \/ point[1] \in {0, 2 * d.width}
                      \/ point[2] \in {0, 2 * d.height}}
    IN  CHOOSE tiles \in {outer(loop, Points10(d) \ Walls10(d, loop), margin) :
                             loop \in {LoopOfStart10(d)}} : TRUE

\* The tile at which the run of the loop along row y that ends at (x, y)
\* begins: the nearest tile to the west that is not '-'.
RunOpener10(d, x, y) ==
    LET corners == {i \in 0 .. x - 1 : d.rows[y + 1][i + 1] # "EW"}
    IN  IF corners = {} THEN "None" ELSE d.rows[y + 1][Max(corners) + 1]

\* The tiles of the loop that are '|', the J of a run F..J or the 7 of a run
\* L..7.
Crossings10(d) ==
    {pos \in LoopOfStart10(d) :
        LET tile == d.rows[pos[2] + 1][pos[1] + 1]
        IN  \/ tile = "NS"
            \/ tile = "NW" /\ RunOpener10(d, pos[1], pos[2]) = "SE"
            \/ tile = "SW" /\ RunOpener10(d, pos[1], pos[2]) = "NE"}

C7_GetCycleReturns ==
    /\ day10.pc \notin {"panic", "loops"}
    /\ day10.pc \in {"get_cycle", "cycle", "done"} =>
          \A i \in 1 .. Len(day10.cycle) :
              /\ InGrid10(day10, day10.cycle[i])
              /\ PipeEnds10(day10, day10.cycle[i]) # {}
              /\ i > 1 => day10.cycle[i] \in Beside10(day10.cycle[i - 1])
    /\ (day10.pc = "done" /\ day10.part = 1) =>
          /\ 2 * day10.result = Cardinality(LoopOfStart10(day10))
          /\ LoopOfStart10(day10) = {day10.cycle[i] : i \in 1 .. Len(day10.cycle)}

(***************************************************************************)
(* Day 18: Puzzle::from_input_part1, from_input_part2, dig_interior        *)
(***************************************************************************)
\* Bound: the loops drawn lie in a box of MaxWidth18 columns.
MaxWidth18 == 4

\* Bound: the loops drawn lie in a box of MaxHeight18 rows.
MaxHeight18 == 4

\* The direction of the unit step from one cell to the next.
StepDirection18(from, to) ==
    IF to[1] > from[1] THEN "R"
    ELSE IF to[1] < from[1] THEN "L"
    ELSE IF to[2] > from[2] THEN "D" ELSE "U"

RECURSIVE LoopSteps18(_, _, _, _, _, _)
\* The unit steps of the walk round the loop of the pipe grid g through
\* start, from pos on to next.
LoopSteps18(g, width, start, pos, next, steps) ==
    IF next = start THEN Append(steps, StepDirection18(pos, next))
    ELSE LET ends == neighbors(g[next[2] * width + next[1] + 1], next[1], next[2])
         IN  LoopSteps18(g, width, start, next,
                         IF ends[1] = pos THEN ends[2] ELSE ends[1],
                         Append(steps, StepDirection18(pos, next)))

RECURSIVE Runs18(_, _, _)
\* The (direction, length) instructions of a list of unit steps: steps i..
\* onwards added to the instructions so far.
Runs18(steps, i, instructions) ==
    IF i > Len(steps) THEN instructions
    ELSE LET n == Len(instructions)
         IN  Runs18(steps, i + 1,
                    IF n > 0 /\ instructions[n][1] = steps[i]
                    THEN [instructions EXCEPT ![n] = <<steps[i], instructions[n][2] + 1>>]
                    ELSE Append(instructions, <<steps[i], 1>>))

\* The dig plan that traces the loop of the pipe grid g through its cell k
\* (from 1), leaving k by the first or the second end of its pipe.
DigPlan18(g, width, k, end) ==
    LET start == <<(k - 1) % width, (k - 1) \div width>>
    IN  Runs18(LoopSteps18(g, width, start, start,
                           neighbors(g[k], start[1], start[2])[end], <<>>), 1, <<>>)

\* The change of (x, y) by an instruction.
Move18(pos, direction, length) ==
    CASE direction = "L" -> <<pos[1] - length, pos[2]>>
      [] direction = "R" -> <<pos[1] + length, pos[2]>>
      [] direction = "U" -> <<pos[1], pos[2] - length>>
      [] direction = "D" -> <<pos[1], pos[2] + length>>

RECURSIVE Ends18(_, _)
\* The (x, y) after the first i instructions, from (0, 0).
Ends18(instructions, i) ==
    IF i = 0 THEN <<0, 0>>
    ELSE Move18(Ends18(instructions, i - 1), instructions[i][1], instructions[i][2])

RECURSIVE SumLengths18(_, _)
\* outline_length after the first i instructions.
SumLengths18(instructions, i) ==
    IF i = 0 THEN 0 ELSE SumLengths18(instructions, i - 1) + instructions[i][2]

\* The tiles an instruction of from_input_part1 digs from (x, y).
DigRange18(pos, direction, length) ==
    CASE direction = "L" -> {<<x, pos[2]>> : x \in (pos[1] - length) .. (pos[1] - 1)}
      [] direction = "R" -> {<<x, pos[2]>> : x \in (pos[1] + 1) .. (pos[1] + length)}
      [] direction = "U" -> {<<pos[1], y>> : y \in (pos[2] - length) .. (pos[2] - 1)}
      [] direction = "D" -> {<<pos[1], y>> : y \in (pos[2] + 1) .. (pos[2] + length)}

RECURSIVE DigPart1(_, _, _, _)
\* The dig loop of from_input_part1 from instruction i on: the tiles dug,
\* and whether assert!(!tile.dug) failed.
DigPart1(instructions, i, pos, dug) ==
    IF i > Len(instructions) THEN [panic |-> FALSE, dug |-> dug]
    ELSE LET range == DigRange18(pos, instructions[i][1], instructions[i][2])
         IN  IF range \cap dug # {} THEN [panic |-> TRUE, dug |-> dug]
             ELSE DigPart1(instructions, i + 1,
                           Move18(pos, instructions[i][1], instructions[i][2]),
                           dug \cup range)

\* from_input_part1: the puzzle; rows is kept as the set of the (x, y) of
\* its dug tiles.
from_input_part1(instructions) ==
    LET ends == {Ends18(instructions, i) : i \in 0 .. Len(instructions)}
        min_x == Min({e[1] : e \in ends})
        max_x == Max({e[1] : e \in ends})
        min_y == Min({e[2] : e \in ends})
        max_y == Max({e[2] : e \in ends})
        w == max_x - min_x + 1
        h == max_y - min_y + 1
        digging == DigPart1(instructions, 1, <<0 - min_x, 0 - min_y>>, {})
    IN  [panic |-> digging.panic, w |-> w, h |-> h,
         outline_length |-> SumLengths18(instructions, Len(instructions)),
         dug |-> digging.dug,
         row_heights |-> [y \in 1 .. h |-> 1],
         column_widths |-> [x \in 1 .. w |-> 1]]

RECURSIVE SortedCoordinates18(_)
\* The iteration order of a BTreeSet.
SortedCoordinates18(coordinates) ==
    IF coordinates = {} THEN <<>>
    ELSE <<Min(coordinates)>> \o SortedCoordinates18(coordinates \ {Min(coordinates)})

\* (yn - y - 1): the size of the gap between two coordinates next to each
\* other in the set.
GapSize18(c, cn) == cn - c - 1

\* row_heights and column_widths of from_input_part2: 1 for every
\* coordinate, and between two of them the size of the gap.
Sizes18(sorted) ==
    [i \in 1 .. 2 * Len(sorted) - 1 |->
        IF i % 2 = 1 THEN 1 ELSE GapSize18(sorted[i \div 2], sorted[i \div 2 + 1])]

RECURSIVE DigWhile18(_, _, _, _, _, _, _)
\* The while loop of from_input_part2 for one instruction: the tile
\* reached, the tiles dug, and whether an assertion or an index failed.
DigWhile18(direction, length, pos, count, dug, row_heights, column_widths) ==
    IF count >= length
    THEN [panic |-> count # length, pos |-> pos, dug |-> dug]
    ELSE IF ~(pos[1] \in 0 .. Len(column_widths) - 1 /\ pos[2] \in 0 .. Len(row_heights) - 1)
    THEN [panic |-> TRUE, pos |-> pos, dug |-> dug]
    ELSE IF pos \in dug
    THEN [panic |-> TRUE, pos |-> pos, dug |-> dug]
    ELSE IF ~(row_heights[pos[2] + 1] = 1 \/ column_widths[pos[1] + 1] = 1)
    THEN [panic |-> TRUE, pos |-> pos, dug |-> dug]
    ELSE DigWhile18(direction, length, Move18(pos, direction, 1),
                    count + row_heights[pos[2] + 1] * column_widths[pos[1] + 1],
                    dug \cup {pos}, row_heights, column_widths)

RECURSIVE DigPart2(_, _, _, _, _, _)
\* The dig loop of from_input_part2 from instruction i on.
DigPart2(instructions, i, pos, dug, row_heights, column_widths) ==
    IF i > Len(instructions) THEN [panic |-> FALSE, dug |-> dug]
    ELSE LET one == DigWhile18(instructions[i][1], instructions[i][2], pos, 0, dug,
                               row_heights, column_widths)
         IN  IF one.panic THEN [panic |-> TRUE, dug |-> one.dug]
             ELSE DigPart2(instructions, i + 1, one.pos, one.dug,
                           row_heights, column_widths)

\* from_input_part2 for the (direction, length) list read from the hex
\* strings.
from_input_part2(instructions) ==
    LET ends == {Ends18(instructions, i) : i \in 0 .. Len(instructions)}
        x_coordinates == {0} \cup {e[1] : e \in ends}
        y_coordinates == {0} \cup {e[2] : e \in ends}
        row_heights == Sizes18(SortedCoordinates18(y_coordinates))
        column_widths == Sizes18(SortedCoordinates18(x_coordinates))
        x == 2 * Cardinality({c \in x_coordinates : c < 0})
        y == 2 * Cardinality({c \in y_coordinates : c < 0})
        digging == DigPart2(instructions, 1, <<x, y>>, {}, row_heights, column_widths)
    IN  [panic |-> digging.panic,
         w |-> 2 * Cardinality(x_coordinates) - 1,
         h |-> 2 * Cardinality(y_coordinates) - 1,
         outline_length |-> SumLengths18(instructions, Len(instructions)),
         dug |-> digging.dug,
         row_heights |-> row_heights,
         column_widths |-> column_widths]

\* get_fill_start: the tile after the first dug tile of row 1; it panics
\* when there is no row 1, no dug tile in it, no tile after it, or when
\* that tile is dug.
get_fill_start(puzzle) ==
    LET dug_in_row == {x \in 0 .. puzzle.w - 1 : <<x, 1>> \in puzzle.dug}
    IN  IF puzzle.h < 2 \/ dug_in_row = {} THEN [panic |-> TRUE, pos |-> <<0, 0>>]
        ELSE [panic |-> Min(dug_in_row) + 1 >= puzzle.w
                           \/ <<Min(dug_in_row) + 1, 1>> \in puzzle.dug,
              pos |-> <<Min(dug_in_row) + 1, 1>>]

RECURSIVE FillLoop18(_, _, _, _)
\* The while loop of dig_interior: the area, the tiles dug, and whether an
\* index was out of range.
FillLoop18(puzzle, stack, dug, area) ==
    IF stack = <<>> THEN [panic |-> FALSE, dug |-> dug, area |-> area]
    ELSE LET pos == stack[Len(stack)]
             x == pos[1]
             y == pos[2]
             rest == SubSeq(stack, 1, Len(stack) - 1)
         IN  IF ~(x \in 0 .. puzzle.w - 1 /\ y \in 0 .. puzzle.h - 1)
             THEN [panic |-> TRUE, dug |-> dug, area |-> area]
             ELSE IF pos \in dug
             THEN FillLoop18(puzzle, rest, dug, area)
             ELSE CHOOSE filled \in
                     {FillLoop18(puzzle, pushed, now_dug, now_area) :
                         pushed \in {rest \o (IF x > 0 THEN <<(<<x - 1, y>>)>> ELSE <<>>)
                                          \o (IF x < puzzle.w THEN <<(<<x + 1, y>>)>> ELSE <<>>)
                                          \o (IF y > 0 THEN <<(<<x, y - 1>>)>> ELSE <<>>)
                                          \o (IF y < puzzle.h THEN <<(<<x, y + 1>>)>> ELSE <<>>)},
                         now_dug \in {dug \cup {pos}},
                         now_area \in {area + puzzle.row_heights[y + 1]
                                                 * puzzle.column_widths[x + 1]}} : TRUE

\* dig_interior
dig_interior(puzzle) ==
    LET start == get_fill_start(puzzle)
    IN  IF start.panic THEN [panic |-> TRUE, dug |-> puzzle.dug, area |-> 0]
        ELSE FillLoop18(puzzle, <<start.pos>>, puzzle.dug, 0)

\* The variables of the other programs.
Others18 == <<day17, day14, day5, day19, day10, day22, day11, day1, day9>>

Day18Init ==
    /\ \E g \in ClosedCells10(MaxWidth18, MaxHeight18, MaxWidth18 * MaxHeight18) :
       \E k \in {i \in 1 .. Len(g) : g[i] # "Ground"} :
       \E end \in 1 .. 2 : \E part \in 1 .. 2 :
          day18 = [pc |-> "from_input", part |-> part,
                   instructions |-> DigPlan18(g, MaxWidth18, k, end),
                   puzzle |-> [panic |-> FALSE, w |-> 0, h |-> 0, outline_length |-> 0,
                               dug |-> {}, row_heights |-> <<>>, column_widths |-> <<>>],
                   area_dug |-> 0, result |-> 0]
    /\ day17 = Idle /\ day14 = Idle /\ day5 = Idle /\ day19 = Idle
    /\ day10 = Idle /\ day22 = Idle
    /\ day11 = Idle /\ day1 = Idle /\ day9 = Idle

\* part1: Puzzle::from_input_part1
Day18FromInputPart1 ==
    /\ day18.pc = "from_input" /\ day18.part = 1
    /\ \E puzzle \in {from_input_part1(day18.instructions)} :
          day18' = [day18 EXCEPT !.pc = IF puzzle.panic THEN "panic" ELSE "dig_interior",
                                 !.puzzle = puzzle]
    /\ UNCHANGED Others18

\* part2: Puzzle::from_input_part2
Day18FromInputPart2 ==
    /\ day18.pc = "from_input" /\ day18.part = 2
    /\ \E puzzle \in {from_input_part2(day18.instructions)} :
          day18' = [day18 EXCEPT !.pc = IF puzzle.panic THEN "panic" ELSE "dig_interior",
                                 !.puzzle = puzzle]
    /\ UNCHANGED Others18

\* puzzle.dig_interior()
Day18DigInterior ==
    /\ day18.pc = "dig_interior"
    /\ \E filled \in {dig_interior(day18.puzzle)} :
          day18' = [day18 EXCEPT !.pc = IF filled.panic THEN "panic" ELSE "area",
                                 !.puzzle.dug = filled.dug,
                                 !.area_dug = filled.area]
    /\ UNCHANGED Others18

\* puzzle.outline_length + area_dug
Day18Area ==
    /\ day18.pc = "area"
    /\ day18' = [day18 EXCEPT !.pc = "done",
                              !.result = day18.puzzle.outline_length + day18.area_dug]
    /\ UNCHANGED Others18

Day18Next == Day18FromInputPart1 \/ Day18FromInputPart2 \/ Day18DigInterior \/ Day18Area

Spec18 == Day18Init /\ [][Day18Next]_vars

RECURSIVE Corners18(_, _, _)
\* The cells of the unit grid the trench of the first i instructions goes
\* through, from (0, 0), in the order it reaches them.
Corners18(instructions, i, n) ==
    IF i > Len(instructions) THEN <<>>
    ELSE IF n > instructions[i][2] THEN Corners18(instructions, i + 1, 1)
    ELSE <<Move18(Ends18(instructions, i - 1), instructions[i][1], n)>>
            \o Corners18(instructions, i, n + 1)

\* The number of cells of the unit grid on the trench or inside it: a cell
\* off the trench is inside when a ray from it to the west, half a cell
\* below its y, crosses an odd number of unit steps of the trench.
UnitArea18(instructions) ==
    LET inner(path) ==
            LET trench == {path[i] : i \in 1 .. Len(path)}
                before(i) == IF i = 1 THEN path[Len(path)] ELSE path[i - 1]
                crossings(cell) ==
                    {i \in 1 .. Len(path) :
                        /\ path[i][1] = before(i)[1]
                        /\ path[i][1] < cell[1]
                        /\ Min({path[i][2], before(i)[2]}) = cell[2]}
                box == (Min({c[1] : c \in trench}) .. Max({c[1] : c \in trench}))
                          \X (Min({c[2] : c \in trench}) .. Max({c[2] : c \in trench}))
            IN  Cardinality(trench)
                   + Cardinality({cell \in box \ trench :
                                     Cardinality(crossings(cell)) % 2 = 1})
    IN  CHOOSE area \in {inner(path) : path \in {Corners18(instructions, 1, 1)}} : TRUE

\* C8: for a dig plan that traces a closed loop that does not cross itself,
\* part1 returns the number of unit cells on the trench or enclosed by it.
C8_Part1CountsLoopCells ==
    day18.part = 1 =>
        /\ day18.pc # "panic"
        /\ day18.pc = "done" => day18.result = UnitArea18(day18.instructions)

\* C9: for a dig plan that traces a closed loop that does not cross itself,
\* part2 returns the area counted on the unit grid, the number of unit cells
\* on the trench or enclosed by it.
C9_Part2EqualsUnitGrid ==
    day18.part = 2 =>
        /\ day18.pc # "panic"
        /\ day18.pc = "done" => day18.result = UnitArea18(day18.instructions)

(***************************************************************************)
(* Day 22: Puzzle::from_input, drop_blocks, num_disintegratable            *)
(***************************************************************************)
\* Bound: a snapshot holds 1..MaxBricks22 bricks.
MaxBricks22 == 3

\* Bound: the x and y of the bricks drawn are 0..MaxXY22.
MaxXY22 == 1

\* Bound: the z of the bricks drawn are 1..MaxZ22.
MaxZ22 == 3

\* The bricks a line of the snapshot can give, ends in ascending order.
Bricks22 ==
    {[min_x |-> x[1], max_x |-> x[2], min_y |-> y[1], max_y |-> y[2],
      min_z |-> z[1], max_z |-> z[2]] :
        x \in {c \in (0 .. MaxXY22) \X (0 .. MaxXY22) : c[1] <= c[2]},
        y \in {c \in (0 .. MaxXY22) \X (0 .. MaxXY22) : c[1] <= c[2]},
        z \in {c \in (1 .. MaxZ22) \X (1 .. MaxZ22) : c[1] <= c[2]}}

\* The (x, y) a brick covers.
Footprint22(block) == (block.min_x .. block.max_x) \X (block.min_y .. block.max_y)

\* Whether two bricks share a cube.
Intersect22(a, b) ==
    /\ Footprint22(a) \cap Footprint22(b) # {}
    /\ a.min_z <= b.max_z /\ b.min_z <= a.max_z

RECURSIVE SortByMinZ(_)
\* blocks.sort_by_key(|b| b.min_z): a stable sort.
SortByMinZ(blocks) ==
    IF Len(blocks) <= 1 THEN blocks
    ELSE LET k == Min({i \in 1 .. Len(blocks) :
                          \A j \in 1 .. Len(blocks) : blocks[j].min_z >= blocks[i].min_z})
         IN  <<blocks[k]>>
                \o SortByMinZ(SubSeq(blocks, 1, k - 1) \o SubSeq(blocks, k + 1, Len(blocks)))

RECURSIVE HeightsLoop22(_, _, _)
\* The loop of from_input over the sorted blocks: the heights, and whether
\* assert!(heights[x][y] < block.max_z) failed.
HeightsLoop22(blocks, i, heights) ==
    IF i > Len(blocks) THEN [panic |-> FALSE, heights |-> heights]
    ELSE IF \E c \in Footprint22(blocks[i]) : heights[c] >= blocks[i].max_z
    THEN [panic |-> TRUE, heights |-> heights]
    ELSE HeightsLoop22(blocks, i + 1,
                       [c \in DOMAIN heights |->
                           IF c \in Footprint22(blocks[i]) THEN blocks[i].max_z
                           ELSE heights[c]])

\* The variables of the other programs.
Others22 == <<day17, day14, day5, day19, day10, day18, day11, day1, day9>>

Day22Init ==
    /\ \E n \in 1 .. MaxBricks22 : \E lines \in [(1 .. n) -> Bricks22] :
       \E part \in 1 .. 2 :
          /\ \A i \in 1 .. n : \A j \in 1 .. i - 1 : ~Intersect22(lines[i], lines[j])
          /\ day22 = [pc |-> "from_input", part |-> part, input |-> lines,
                      support_for |-> <<>>, sorted |-> <<>>, falling |-> {}, n |-> 0,
                      blocks |-> <<>>, heights |-> <<>>, max_x |-> 0, max_y |-> 0,
                      supports |-> <<>>, supported_by |-> <<>>,
                      supports_exclusively |-> <<>>,
                      highest_block |-> <<>>, i |-> 0, result |-> 0]
    /\ day17 = Idle /\ day14 = Idle /\ day5 = Idle /\ day19 = Idle
    /\ day10 = Idle /\ day18 = Idle
    /\ day11 = Idle /\ day1 = Idle /\ day9 = Idle

\* Puzzle::from_input, and the first lines of drop_blocks: heights filled
\* with 0 and highest_block made of (max_x + 1) x (max_y + 1) None.
Day22FromInput ==
    /\ day22.pc = "from_input"
    /\ LET n == Len(day22.input)
           ids == 0 .. n - 1
           global_max_x == Max({day22.input[i].max_x : i \in 1 .. n})
           global_max_y == Max({day22.input[i].max_y : i \in 1 .. n})
           blocks == SortByMinZ([i \in 1 .. n |->
                                    [id |-> i - 1,
                                     min_x |-> day22.input[i].min_x,
                                     max_x |-> day22.input[i].max_x,
                                     min_y |-> day22.input[i].min_y,
                                     max_y |-> day22.input[i].max_y,
                                     min_z |-> day22.input[i].min_z,
                                     max_z |-> day22.input[i].max_z]])
           zeros == [c \in (0 .. global_max_x) \X (0 .. global_max_y) |-> 0]
           max_x == global_max_y
           max_y == global_max_y
       IN  IF HeightsLoop22(blocks, 1, zeros).panic
           THEN day22' = [day22 EXCEPT !.pc = "panic"]
           ELSE day22' = [day22 EXCEPT
                            !.pc = "drop_blocks",
                            !.blocks = blocks,
                            !.heights = zeros,
                            !.max_x = max_x,
                            !.max_y = max_y,
                            !.supports = [id \in ids |-> {}],
                            !.supported_by = [id \in ids |-> {}],
                            !.supports_exclusively = [id \in ids |-> {}],
                            !.highest_block = [c \in (0 .. max_x) \X (0 .. max_y) |-> <<>>],
                            !.i = 1]
    /\ UNCHANGED Others22

\* One iteration of the loop of drop_blocks over the blocks.  It panics
\* when highest_block[x][y] is out of range.
Day22DropBlock ==
    /\ day22.pc = "drop_blocks"
    /\ day22.i <= Len(day22.blocks)
    /\ LET block == day22.blocks[day22.i]
           under == Footprint22(block)
           z == Max({0} \cup {day22.heights[c] : c \in under})
           below == {day22.highest_block[c][1] :
                        c \in {d \in under \cap DOMAIN day22.highest_block :
                                  /\ day22.highest_block[d] # <<>>
                                  /\ day22.highest_block[d][2] = z}}
           block_height == block.max_z - block.min_z + 1
           max_z == z + block_height
       IN  IF ~(under \subseteq DOMAIN day22.highest_block)
              \/ \E c \in under : day22.heights[c] >= max_z
           THEN day22' = [day22 EXCEPT !.pc = "panic"]
           ELSE day22' = [day22 EXCEPT
                            !.supported_by[block.id] = @ \cup below,
                            !.supports = [id \in DOMAIN day22.supports |->
                                             IF id \in below
                                             THEN day22.supports[id] \cup {block.id}
                                             ELSE day22.supports[id]],
                            !.blocks[day22.i].min_z = z + 1,
                            !.blocks[day22.i].max_z = max_z,
                            !.heights = [c \in DOMAIN day22.heights |->
                                            IF c \in under THEN max_z ELSE day22.heights[c]],
                            !.highest_block = [c \in DOMAIN day22.highest_block |->
                                                  IF c \in under THEN <<block.id, max_z>>
                                                  ELSE day22.highest_block[c]],
                            !.i = day22.i + 1]
    /\ UNCHANGED Others22

\* The last loop of drop_blocks: supports_exclusively.
Day22SupportsExclusively ==
    /\ day22.pc = "drop_blocks"
    /\ day22.i > Len(day22.blocks)
    /\ day22' = [day22 EXCEPT
                    !.pc = "dropped",
                    !.supports_exclusively =
                        [id \in DOMAIN day22.supports |->
                            {b \in day22.supports[id] :
                                Cardinality(day22.supported_by[b]) = 1}]]
    /\ UNCHANGED Others22

\* part1: num_disintegratable
Day22NumDisintegratable ==
    /\ day22.pc = "dropped"
    /\ day22.part = 1
    /\ day22' = [day22 EXCEPT
                    !.pc = "done",
                    !.result = Cardinality({i \in 1 .. Len(day22.blocks) :
                                   day22.supports_exclusively[day22.blocks[i].id] = {}})]
    /\ UNCHANGED Others22

RECURSIVE SortByMaxZDescending(_)
\* blocks.sort_by_key(|b| usize::MAX - b.max_z): a stable sort.
SortByMaxZDescending(blocks) ==
    IF Len(blocks) <= 1 THEN blocks
    ELSE LET k == Min({i \in 1 .. Len(blocks) :
                          \A j \in 1 .. Len(blocks) :
                              UsizeMax - blocks[j].max_z >= UsizeMax - blocks[i].max_z})
         IN  <<blocks[k]>>
                \o SortByMaxZDescending(SubSeq(blocks, 1, k - 1)
                                           \o SubSeq(blocks, k + 1, Len(blocks)))

\* The orders in which an iteration can visit the keys of a HashMap.
Orders22(keys) ==
    {order \in [(1 .. Cardinality(keys)) -> keys] :
        \A i \in DOMAIN order : \A j \in DOMAIN order : i # j => order[i] # order[j]}

\* A pass that inserts nothing: only the exclusively supported blocks fall.
FallingPassWithoutInsert22(support_for, order, k, falling, change) ==
    [falling |-> falling, change |-> FALSE]

RECURSIVE FallingPass22(_, _, _, _, _)
\* One pass of "for (support, supported) in &support_for" over the entries
\* in the given order: falling after it, and whether anything was inserted.
FallingPass22(support_for, order, k, falling, change) ==
    IF k > Len(order) THEN [falling |-> falling, change |-> change]
    ELSE IF order[k] \subseteq falling
    THEN FallingPass22(support_for, order, k + 1, falling \cup support_for[order[k]],
                       change \/ ~(support_for[order[k]] \subseteq falling))
    ELSE FallingPass22(support_for, order, k + 1, falling, change)

\* part2: the start of sum_falling, up to the sort of the blocks.
\* support_for maps each non-empty support to the blocks that have it.
Day22SumFallingStart ==
    /\ day22.pc = "dropped"
    /\ day22.part = 2
    /\ LET ids == DOMAIN day22.supported_by
           supports == {day22.supported_by[id] : id \in ids} \ {{}}
       IN  day22' = [day22 EXCEPT
                        !.pc = "sum_falling",
                        !.n = 0,
                        !.support_for = [support \in supports |->
                                            {id \in ids : day22.supported_by[id] = support}],
                        !.sorted = SortByMaxZDescending(day22.blocks),
                        !.i = 1]
    /\ UNCHANGED Others22

\* The head of one iteration of "for block in blocks" in sum_falling.
Day22SumFallingBlock ==
    /\ day22.pc = "sum_falling"
    /\ day22.i <= Len(day22.sorted)
    /\ day22' = [day22 EXCEPT
                    !.pc = "loop",
                    !.falling = day22.supports_exclusively[day22.sorted[day22.i].id]]
    /\ UNCHANGED Others22

\* One pass of the loop of sum_falling; without a change the loop breaks
\* and n += falling.len().
Day22SumFallingPass ==
    /\ day22.pc = "loop"
    /\ \E order \in Orders22(DOMAIN day22.support_for) :
       \E pass \in {FallingPass22(day22.support_for, order, 1, day22.falling, FALSE)} :
          IF pass.change
          THEN day22' = [day22 EXCEPT !.falling = pass.falling]
          ELSE day22' = [day22 EXCEPT
                            !.pc = "sum_falling",
                            !.n = day22.n + Cardinality(pass.falling),
                            !.i = day22.i + 1]
    /\ UNCHANGED Others22

\* The end of sum_falling: n is returned.
Day22SumFallingReturn ==
    /\ day22.pc = "sum_falling"
    /\ day22.i > Len(day22.sorted)
    /\ day22' = [day22 EXCEPT !.pc = "done", !.result = day22.n]
    /\ UNCHANGED Others22

Day22Next ==
    \/ Day22FromInput
    \/ Day22DropBlock
    \/ Day22SupportsExclusively
    \/ Day22NumDisintegratable
    \/ Day22SumFallingStart
    \/ Day22SumFallingBlock
    \/ Day22SumFallingPass
    \/ Day22SumFallingReturn

Spec22 == Day22Init /\ [][Day22Next]_vars

\* Whether brick i of a snapshot can fall by one: it is above the ground and
\* no other brick has a cube directly under one of its own.
CanFall22(bricks, i) ==
    /\ bricks[i].min_z > 1
    /\ \A j \in (1 .. Len(bricks)) \ {i} :
          ~Intersect22([bricks[i] EXCEPT !.min_z = @ - 1, !.max_z = @ - 1], bricks[j])

RECURSIVE Settle22(_)
\* The snapshot after every brick has fallen as far as it can, one brick
\* by one level at a time.
Settle22(bricks) ==
    IF \A i \in 1 .. Len(bricks) : ~CanFall22(bricks, i) THEN bricks
    ELSE CHOOSE settled \in
            {Settle22([bricks EXCEPT ![i].min_z = @ - 1, ![i].max_z = @ - 1]) :
                i \in {CHOOSE j \in 1 .. Len(bricks) : CanFall22(bricks, j)}} : TRUE

\* The bricks (by line, from 1) brick i of a snapshot rests on: their top is
\* directly below a cube of i.
RestsOn22(bricks, i) ==
    {j \in (1 .. Len(bricks)) \ {i} :
        /\ Footprint22(bricks[i]) \cap Footprint22(bricks[j]) # {}
        /\ bricks[j].max_z = bricks[i].min_z - 1}

\* C10: drop_blocks returns, and after it every brick is where it comes to
\* rest when all bricks fall straight down as far as they can,
\* supported_by[b] holds exactly the bricks b rests on, and part1 returns
\* the number of bricks b such that every brick that rests on b rests on
\* another brick too.
C10_DropBlocksSettles ==
    /\ day22.pc # "panic"
    /\ day22.pc \in {"dropped", "done"} /\ day22.part = 1 =>
          \E settled \in {Settle22(day22.input)} :
             /\ \A i \in 1 .. Len(day22.blocks) :
                   LET block == day22.blocks[i]
                   IN  /\ block.min_z = settled[block.id + 1].min_z
                       /\ block.max_z = settled[block.id + 1].max_z
                       /\ day22.supported_by[block.id]
                             = {j - 1 : j \in RestsOn22(settled, block.id + 1)}
             /\ day22.pc = "done" =>
                   day22.result
                      = Cardinality({i \in 1 .. Len(settled) :
                                        \A j \in 1 .. Len(settled) :
                                            i \in RestsOn22(settled, j)
                                               => Cardinality(RestsOn22(settled, j)) >= 2})

RECURSIVE WouldFall22(_, _, _)
\* The bricks (by line, from 1) that fall when brick a of a settled snapshot
\* is removed: fallen grows by the bricks that rest on something and rest
\* only on a and on fallen bricks, until there is none left to add.
WouldFall22(settled, a, fallen) ==
    LET more == {b \in (1 .. Len(settled)) \ ({a} \cup fallen) :
                    /\ RestsOn22(settled, b) # {}
                    /\ RestsOn22(settled, b) \subseteq ({a} \cup fallen)}
    IN  IF more = {} THEN fallen ELSE WouldFall22(settled, a, fallen \cup more)

\* The sum over every brick of the number of bricks that fall without it.
SumWouldFall22(settled) ==
    SumOver([a \in 1 .. Len(settled) |-> Cardinality(WouldFall22(settled, a, {}))],
            1 .. Len(settled))

\* C11: sum_falling returns the sum, over every brick A of the settled
\* stack, of the number of other bricks that would fall if A alone were
\* removed, a brick falling exactly when every brick it rests on has been
\* removed or has fallen.
C11_SumFallingCountsChainReactions ==
    day22.part = 2 /\ day22.pc = "done" =>
        \E settled \in {Settle22(day22.input)} : day22.result = SumWouldFall22(settled)

\* C11 witness: sum_falling has returned 3 for a stack in which the removal
\* of one brick makes a brick fall that does not rest on it.
C11_Witness ==
    /\ day22.part = 2 /\ day22.pc = "done"
    /\ \E settled \in {Settle22(day22.input)} :
          /\ \E a \in 1 .. Len(settled) : \E b \in WouldFall22(settled, a, {}) :
                a \notin RestsOn22(settled, b)
          /\ day22.result = 3

(***************************************************************************)
(* Day 11: Puzzle::from_input, sum_of_galaxy_pair_distances                *)
(***************************************************************************)
\* Bound: the images drawn have at most this many tiles (width * height).
MaxCells11 == 9

\* Bound: the images drawn have at most this many lines and columns.
MaxSide11 == 4

\* Bound: from_input is also called with emptiness_size 1 .. MaxEmptiness11.
MaxEmptiness11 == 3

\* part1: Puzzle::from_input(input, 2)
Part1Emptiness11 == 2

\* part2: Puzzle::from_input(input, 1000000)
Part2Emptiness11 == 1000000

\* The lines of an input: an image as it is, or with one defect.
Input11(image, defect) ==
    LET height == Len(image)
        width == Len(image[1])
    IN  CASE defect = "empty" -> <<>>
          [] defect = "short" ->
                [image EXCEPT ![height] = SubSeq(image[height], 1, width - 1)]
          [] defect = "char" -> [image EXCEPT ![height][width] = "x"]
          [] OTHER -> image

\* A row size that ignores emptiness: galaxy-free rows are not expanded.
RowSizeAlwaysOne11(tiles, emptiness_size) == 1

\* get_row_with_size_for_line: the size of a row of tiles.
RowSize11(tiles, emptiness_size) ==
    IF \A j \in 1 .. Len(tiles) : tiles[j] = "." THEN emptiness_size ELSE 1

RECURSIVE LinesLoop11(_, _, _, _, _, _)
\* The loop of from_input over the lines: an error, or the rows with the
\* sizes of the rows and of the columns.
LinesLoop11(lines, i, line_len, emptiness_size, row_sizes, col_sizes) ==
    IF i > Len(lines)
    THEN [error |-> "", rows |-> lines, row_sizes |-> row_sizes, col_sizes |-> col_sizes]
    ELSE IF Len(lines[i]) # line_len
    THEN [error |-> "Not all lines have the same length", rows |-> <<>>,
          row_sizes |-> <<>>, col_sizes |-> <<>>]
    ELSE IF \E j \in 1 .. line_len : lines[i][j] \notin {".", "#"}
    THEN [error |-> "Unexpected tile type", rows |-> <<>>,
          row_sizes |-> <<>>, col_sizes |-> <<>>]
    ELSE LinesLoop11(lines, i + 1, line_len, emptiness_size,
                     Append(row_sizes, RowSize11(lines[i], emptiness_size)),
                     [j \in 1 .. line_len |->
                         IF lines[i][j] # "." THEN 1 ELSE col_sizes[j]])

RECURSIVE GalaxiesLoop11(_, _, _, _, _, _, _, _)
\* The loops of from_input over the rows (i) and their tiles (j): the
\* galaxies, x and y growing by the sizes of the columns and rows passed.
GalaxiesLoop11(rows, row_sizes, col_sizes, i, j, x, y, galaxies) ==
    IF i > Len(rows) THEN galaxies
    ELSE IF j > Len(rows[i])
    THEN GalaxiesLoop11(rows, row_sizes, col_sizes, i + 1, 1, 0, y + row_sizes[i], galaxies)
    ELSE GalaxiesLoop11(rows, row_sizes, col_sizes, i, j + 1, x + col_sizes[j], y,
                        IF rows[i][j] = "#" THEN Append(galaxies, [x |-> x, y |-> y])
                        ELSE galaxies)

\* Puzzle::from_input
from_input11(input, emptiness_size) ==
    IF Len(input) = 0 THEN [error |-> "Empty input", rows |-> <<>>, galaxies |-> <<>>]
    ELSE LET line_len == Len(input[1])
             read == LinesLoop11(input, 1, line_len, emptiness_size, <<>>,
                                 [j \in 1 .. line_len |-> emptiness_size])
         IN  IF read.error # "" THEN [error |-> read.error, rows |-> <<>>, galaxies |-> <<>>]
             ELSE [error |-> "", rows |-> read.rows,
                   galaxies |-> GalaxiesLoop11(read.rows, read.row_sizes, read.col_sizes,
                                               1, 1, 0, 0, <<>>)]

\* Galaxy::distance_to
distance_to(g, other) == Abs(g.x - other.x) + Abs(g.y - other.y)

\* The variables of the other programs.
Others11 == <<day17, day14, day5, day19, day10, day18, day22, day1, day9>>

\* part 1 and 2 are part1 and part2; part 0 is from_input with another
\* emptiness_size, followed by sum_of_galaxy_pair_distances.
Day11Init ==
    /\ \E width \in 0 .. MaxSide11 :
       \E height \in 1 .. Min({MaxSide11, MaxCells11 \div Max({width, 1})}) :
       \E image \in [(1 .. height) -> [(1 .. width) -> {".", "#"}]] :
       \E defect \in {"none", "empty"}
                        \cup (IF width >= 1 THEN {"char"} ELSE {})
                        \cup (IF width >= 1 /\ height >= 2 THEN {"short"} ELSE {}) :
       \E part \in 0 .. 2 :
       \E emptiness_size \in IF part = 1 THEN {Part1Emptiness11}
                             ELSE IF part = 2 THEN {Part2Emptiness11}
                             ELSE 1 .. MaxEmptiness11 :
          day11 = [pc |-> "from_input", part |-> part, emptiness_size |-> emptiness_size,
                   input |-> Input11(image, defect),
                   rows |-> <<>>, galaxies |-> <<>>, i |-> 0, sum |-> 0,
                   result |-> 0, error |-> ""]
    /\ day17 = Idle /\ day14 = Idle /\ day5 = Idle /\ day19 = Idle
    /\ day10 = Idle /\ day18 = Idle /\ day22 = Idle /\ day1 = Idle /\ day9 = Idle

\* Puzzle::from_input(input, emptiness_size)?
Day11FromInput ==
    /\ day11.pc = "from_input"
    /\ \E puzzle \in {from_input11(day11.input, day11.emptiness_size)} :
          IF puzzle.error # ""
          THEN day11' = [day11 EXCEPT !.pc = "error", !.error = puzzle.error]
          ELSE day11' = [day11 EXCEPT !.pc = "sum", !.rows = puzzle.rows,
                                      !.galaxies = puzzle.galaxies, !.i = 1, !.sum = 0]
    /\ UNCHANGED Others11

\* One iteration of the outer loop of sum_of_galaxy_pair_distances: g1 is
\* galaxy i, g2 every galaxy after it.
Day11SumStep ==
    /\ day11.pc = "sum"
    /\ day11.i <= Len(day11.galaxies)
    /\ day11' = [day11 EXCEPT
                    !.sum = day11.sum
                        + SumOver([k \in (day11.i + 1) .. Len(day11.galaxies) |->
                                      distance_to(day11.galaxies[day11.i], day11.galaxies[k])],
                                  (day11.i + 1) .. Len(day11.galaxies)),
                    !.i = day11.i + 1]
    /\ UNCHANGED Others11

\* The end of sum_of_galaxy_pair_distances: sum is returned.
Day11Return ==
    /\ day11.pc = "sum"
    /\ day11.i > Len(day11.galaxies)
    /\ day11' = [day11 EXCEPT !.pc = "done", !.result = day11.sum]
    /\ UNCHANGED Others11

Day11Next == Day11FromInput \/ Day11SumStep \/ Day11Return

Spec11 == Day11Init /\ [][Day11Next]_vars

\* Whether the lines are a grid of "." and "#".
IsGrid11(input) ==
    /\ Len(input) >= 1
    /\ \A r \in 1 .. Len(input) :
          /\ Len(input[r]) = Len(input[1])
          /\ \A c \in 1 .. Len(input[r]) : input[r][c] \in {".", "#"}

\* The <<row, column>> of the galaxies of a grid.
Cells11(input) ==
    {p \in (1 .. Len(input)) \X (1 .. Len(input[1])) : input[p[1]][p[2]] = "#"}

\* The number of galaxy-free rows and columns lying between two tiles.
EmptyBetween11(input, p, q) ==
    Cardinality({r \in (Min({p[1], q[1]}) + 1) .. (Max({p[1], q[1]}) - 1) :
                    \A c \in 1 .. Len(input[1]) : input[r][c] # "#"})
    + Cardinality({c \in (Min({p[2], q[2]}) + 1) .. (Max({p[2], q[2]}) - 1) :
                      \A r \in 1 .. Len(input) : input[r][c] # "#"})

\* The Manhattan distance in the grid plus (k - 1) for each of them.
ExpandedDistance11(input, k, p, q) ==
    Abs(p[1] - q[1]) + Abs(p[2] - q[2]) + (k - 1) * EmptyBetween11(input, p, q)

\* The place of a galaxy among the galaxies read line by line.
Rank11(input, p) ==
    1 + Cardinality({q \in Cells11(input) :
                        q[1] < p[1] \/ (q[1] = p[1] /\ q[2] < p[2])})

\* The sum of the distances over the unordered pairs of galaxies.
SumOfPairs11(input, k) ==
    LET pairs == {pair \in SUBSET Cells11(input) : Cardinality(pair) = 2}
    IN  SumOver([pair \in pairs |->
                    LET p == CHOOSE a \in pair : TRUE
                        q == CHOOSE b \in pair \ {p} : TRUE
                    IN  ExpandedDistance11(input, k, p, q)],
                pairs)

\* C12: for every grid and emptiness_size k >= 1 from_input returns, the
\* distance computed between two galaxies is their Manhattan distance in
\* the grid plus (k - 1) for each galaxy-free row and column between them,
\* sum_of_galaxy_pair_distances adds it over every unordered pair once, and
\* part1 uses k = 2, part2 k = 1000000.
C12_ExpandedDistances ==
    /\ day11.part = 1 => day11.emptiness_size = 2
    /\ day11.part = 2 => day11.emptiness_size = 1000000
    /\ IsGrid11(day11.input) => day11.pc # "error"
    /\ day11.pc \in {"sum", "done"} =>
          \E cells \in {Cells11(day11.input)} :
             /\ Len(day11.galaxies) = Cardinality(cells)
             /\ \A p \in cells : \A q \in cells :
                   distance_to(day11.galaxies[Rank11(day11.input, p)],
                               day11.galaxies[Rank11(day11.input, q)])
                      = ExpandedDistance11(day11.input, day11.emptiness_size, p, q)
    /\ day11.pc = "done" =>
          day11.result = SumOfPairs11(day11.input, day11.emptiness_size)

\* C12 witness: part2 has returned for a grid of at least three galaxies, two
\* of them with a galaxy-free row and a galaxy-free column between them.
C12_Witness ==
    /\ day11.pc = "done" /\ day11.part = 2
    /\ Cardinality(Cells11(day11.input)) >= 3
    /\ \E p \in Cells11(day11.input) : \E q \in Cells11(day11.input) :
          /\ EmptyBetween11(day11.input, p, q) = 2
          /\ Abs(p[1] - q[1]) = 2 /\ Abs(p[2] - q[2]) = 2
    /\ day11.result > 2 * Part2Emptiness11

(***************************************************************************)
(* Day 1 (and the config of every program): Config::build, main, run       *)
(***************************************************************************)
\* Bound: the command line holds 0 .. MaxArgs1 strings.
MaxArgs1 == 4

\* The strings drawn for a command line.
ArgStrings1 == {"day1", "in1", "in2"}

\* The paths the file system may hold a file at.
Paths1 == {"in1", "in2"}

\* The contents drawn for a file: its lines, each a sequence of characters.
Files1 ==
    {<<>>,
     <<<<"1", "a", "7">>>>,
     <<<<"o", "n", "e">>, <<"7">>>>,
     <<<<"a", "b">>>>,
     <<<<"7", "o", "n", "e">>, <<"x">>>>}

\* No file at a path.
NoFile1 == [exists |-> FALSE, lines |-> <<>>]

\* Config::build accepting every command line of at least three strings.
BuildAtLeastThree(args) ==
    IF Len(args) < 3 THEN [error |-> "Not enough arguments", file_path1 |-> "", file_path2 |-> ""]
    ELSE [error |-> "", file_path1 |-> args[2], file_path2 |-> args[3]]

\* Config::build; args[1] and args[2] of the code are args[2] and args[3].
build(args) ==
    IF Len(args) # 3 THEN [error |-> "Not enough arguments", file_path1 |-> "", file_path2 |-> ""]
    ELSE [error |-> "", file_path1 |-> args[2], file_path2 |-> args[3]]

\* fs::read_to_string
read_to_string(files, path) ==
    IF path \in DOMAIN files /\ files[path].exists
    THEN [error |-> "", contents |-> files[path].lines]
    ELSE [error |-> "No such file or directory", contents |-> <<>>]

\* char::is_numeric, on the characters drawn.
is_numeric(c) == c \in {"0", "1", "2", "3", "4", "5", "6", "7", "8", "9"}

\* char::to_digit(10)
to_digit(c) ==
    CASE c = "0" -> 0 [] c = "1" -> 1 [] c = "2" -> 2 [] c = "3" -> 3 [] c = "4" -> 4
      [] c = "5" -> 5 [] c = "6" -> 6 [] c = "7" -> 7 [] c = "8" -> 8 [] c = "9" -> 9

\* part1::find_first_and_last_digits: <<first, last>>, or <<>> for Err.
Part1Digits(line) ==
    LET at == {i \in 1 .. Len(line) : is_numeric(line[i])}
    IN  IF at = {} THEN <<>> ELSE <<to_digit(line[Min(at)]), to_digit(line[Max(at)])>>

\* part2::DIGITS
DIGITS ==
    <<<<<<"0">>, 0>>, <<<<"1">>, 1>>, <<<<"2">>, 2>>, <<<<"3">>, 3>>, <<<<"4">>, 4>>,
      <<<<"5">>, 5>>, <<<<"6">>, 6>>, <<<<"7">>, 7>>, <<<<"8">>, 8>>, <<<<"9">>, 9>>,
      <<<<"z", "e", "r", "o">>, 0>>, <<<<"o", "n", "e">>, 1>>, <<<<"t", "w", "o">>, 2>>,
      <<<<"t", "h", "r", "e", "e">>, 3>>, <<<<"f", "o", "u", "r">>, 4>>,
      <<<<"f", "i", "v", "e">>, 5>>, <<<<"s", "i", "x">>, 6>>,
      <<<<"s", "e", "v", "e", "n">>, 7>>, <<<<"e", "i", "g", "h", "t">>, 8>>,
      <<<<"n", "i", "n", "e">>, 9>>>>

\* The places of a pattern in a line (str::find is the least, rfind the greatest).
Occurrences1(line, pattern) ==
    {i \in 1 .. (Len(line) - Len(pattern) + 1) :
        SubSeq(line, i, i + Len(pattern) - 1) = pattern}

RECURSIVE Part2DigitsLoop(_, _, _, _, _, _)
\* The loop of part2::find_first_and_last_digits over DIGITS; index 0 is None.
Part2DigitsLoop(line, k, first_digit_index, last_digit_index, first_digit, last_digit) ==
    IF k > Len(DIGITS)
    THEN IF first_digit_index = 0 \/ last_digit_index = 0 THEN <<>>
         ELSE <<first_digit, last_digit>>
    ELSE LET at == Occurrences1(line, DIGITS[k][1])
             first == at # {} /\ (first_digit_index = 0 \/ first_digit_index > Min(at))
             last == at # {} /\ (last_digit_index = 0 \/ last_digit_index < Max(at))
         IN  Part2DigitsLoop(line, k + 1,
                             IF first THEN Min(at) ELSE first_digit_index,
                             IF last THEN Max(at) ELSE last_digit_index,
                             IF first THEN DIGITS[k][2] ELSE first_digit,
                             IF last THEN DIGITS[k][2] ELSE last_digit)

RECURSIVE RunPart(_, _, _, _)
\* part1::run and part2::run: the sum printed, or the error of the first
\* line without a digit.
RunPart(part, contents, i, sum) ==
    IF i > Len(contents) THEN [error |-> "", sum |-> sum]
    ELSE LET digits == IF part = 1 THEN Part1Digits(contents[i])
                       ELSE Part2DigitsLoop(contents[i], 1, 0, 0, 0, 0)
         IN  IF digits = <<>> THEN [error |-> "does not contain a digit", sum |-> 0]
             ELSE RunPart(part, contents, i + 1, sum + 10 * digits[1] + digits[2])

\* The variables of the other programs.
Others1 == <<day17, day14, day5, day19, day10, day18, day22, day11, day9>>

Day1Init ==
    /\ \E n \in 0 .. MaxArgs1 : \E args \in [(1 .. n) -> ArgStrings1] :
       \E files \in [Paths1 -> {[exists |-> TRUE, lines |-> f] : f \in Files1} \cup {NoFile1}] :
          day1 = [pc |-> "main", args |-> args, files |-> files,
                  config |-> [file_path1 |-> "", file_path2 |-> ""],
                  contents |-> <<>>, log |-> <<>>, printed |-> <<>>, error |-> ""]
    /\ day17 = Idle /\ day14 = Idle /\ day5 = Idle /\ day19 = Idle
    /\ day10 = Idle /\ day18 = Idle /\ day22 = Idle /\ day11 = Idle /\ day9 = Idle

\* main: Config::build(&args)?
Day1Build ==
    /\ day1.pc = "main"
    /\ \E built \in {build(day1.args)} :
          IF built.error # ""
          THEN day1' = [day1 EXCEPT !.pc = "error", !.error = built.error]
          ELSE day1' = [day1 EXCEPT !.pc = "read1",
                                    !.config = [file_path1 |-> built.file_path1,
                                                file_path2 |-> built.file_path2]]
    /\ UNCHANGED Others1

\* run: fs::read_to_string(config.file_path1)?
Day1ReadFile1 ==
    /\ day1.pc = "read1"
    /\ \E read \in {read_to_string(day1.files, day1.config.file_path1)} :
          IF read.error # ""
          THEN day1' = [day1 EXCEPT !.pc = "error", !.error = read.error,
                                    !.log = Append(day1.log, "read1")]
          ELSE day1' = [day1 EXCEPT !.pc = "part1", !.contents = read.contents,
                                    !.log = Append(day1.log, "read1")]
    /\ UNCHANGED Others1

\* run: part1::run(&contents)?
Day1Part1 ==
    /\ day1.pc = "part1"
    /\ \E ran \in {RunPart(1, day1.contents, 1, 0)} :
          IF ran.error # ""
          THEN day1' = [day1 EXCEPT !.pc = "error", !.error = ran.error,
                                    !.log = Append(day1.log, "part1")]
          ELSE day1' = [day1 EXCEPT !.pc = "read2",
                                    !.printed = Append(day1.printed, ran.sum),
                                    !.log = Append(day1.log, "part1")]
    /\ UNCHANGED Others1

\* run: fs::read_to_string(config.file_path2)?
Day1ReadFile2 ==
    /\ day1.pc = "read2"
    /\ \E read \in {read_to_string(day1.files, day1.config.file_path2)} :
          IF read.error # ""
          THEN day1' = [day1 EXCEPT !.pc = "error", !.error = read.error,
                                    !.log = Append(day1.log, "read2")]
          ELSE day1' = [day1 EXCEPT !.pc = "part2", !.contents = read.contents,
                                    !.log = Append(day1.log, "read2")]
    /\ UNCHANGED Others1

\* run: part2::run(&contents)?, Ok(())
Day1Part2 ==
    /\ day1.pc = "part2"
    /\ \E ran \in {RunPart(2, day1.contents, 1, 0)} :
          IF ran.error # ""
          THEN day1' = [day1 EXCEPT !.pc = "error", !.error = ran.error,
                                    !.log = Append(day1.log, "part2")]
          ELSE day1' = [day1 EXCEPT !.pc = "done",
                                    !.printed = Append(day1.printed, ran.sum),
                                    !.log = Append(day1.log, "part2")]
    /\ UNCHANGED Others1

Day1Next == Day1Build \/ Day1ReadFile1 \/ Day1Part1 \/ Day1ReadFile2 \/ Day1Part2

Spec1 == Day1Init /\ [][Day1Next]_vars

\* C13: Config::build returns Ok with file_path1 = args[1] and file_path2 =
\* args[2] exactly when args has length 3 and the error "Not enough
\* arguments" for every other length; run reads file_path2 only after part 1
\* has run to its end on file_path1, and an error in part 1 ends the run
\* with part 2 neither read nor computed.
C13_BuildAndRunOrder ==
    /\ day1.pc # "main" =>
          IF Len(day1.args) = 3
          THEN /\ day1.error # "Not enough arguments"
               /\ day1.config = [file_path1 |-> day1.args[2], file_path2 |-> day1.args[3]]
          ELSE day1.pc = "error" /\ day1.error = "Not enough arguments" /\ day1.log = <<>>
    /\ \E n \in 0 .. 4 : day1.log = SubSeq(<<"read1", "part1", "read2", "part2">>, 1, n)
    /\ Len(day1.log) >= 3 =>
          /\ Len(day1.printed) >= 1
          /\ day1.printed[1] = RunPart(1, day1.files[day1.args[2]].lines, 1, 0).sum
    /\ day1.pc = "error" /\ Len(day1.log) = 2 =>
          /\ day1.printed = <<>>
          /\ RunPart(1, day1.files[day1.args[2]].lines, 1, 0).error # ""
    /\ day1.pc = "done" => Len(day1.log) = 4 /\ Len(day1.printed) = 2

\* C13 witness: part 1 has ended the run with an error while the second
\* path names a file part 2 would have accepted.
C13_Witness ==
    /\ day1.pc = "error" /\ day1.log = <<"read1", "part1">>
    /\ Len(day1.args) = 3
    /\ day1.args[3] \in Paths1 /\ day1.args[3] # day1.args[2]
    /\ day1.files[day1.args[3]].exists
    /\ RunPart(2, day1.files[day1.args[3]].lines, 1, 0).error = ""

(***************************************************************************)
(* Day 9: Sequence::from_differences, extrapolate_next_value, part1, part2 *)
(***************************************************************************)
\* Bound: an input holds at most this many numbers.
MaxElements9 == 3

\* Bound: an input holds at most this many lines.
MaxLines9 == 2

\* Bound: i32 is modelled with I32Modulus9 values, -I32Modulus9 / 2 upwards.
I32Modulus9 == 16

I32Min9 == 0 - (I32Modulus9 \div 2)

I32Max9 == I32Min9 + I32Modulus9 - 1

\* The i32 an operation gives: with overflow checks a result out of range
\* panics, without them it wraps.
I32Result9(x, overflow_checks) ==
    IF x >= I32Min9 /\ x <= I32Max9 THEN [panic |-> FALSE, value |-> x]
    ELSE IF overflow_checks THEN [panic |-> TRUE, value |-> 0]
    ELSE [panic |-> FALSE, value |-> ((x - I32Min9) % I32Modulus9) + I32Min9]

\* Sequence::from_differences
from_differences(elements, overflow_checks) ==
    IF Len(elements) < 2 THEN [panic |-> FALSE, elements |-> <<>>]
    ELSE LET differences == [k \in 1 .. (Len(elements) - 1) |->
                                I32Result9(elements[k + 1] - elements[k], overflow_checks)]
         IN  IF \E k \in DOMAIN differences : differences[k].panic
             THEN [panic |-> TRUE, elements |-> <<>>]
             ELSE [panic |-> FALSE,
                   elements |-> [k \in DOMAIN differences |-> differences[k].value]]

RECURSIVE extrapolate_next_value(_, _, _)
\* Sequence::extrapolate_next_value
extrapolate_next_value(elements, reverse, overflow_checks) ==
    IF \A k \in 1 .. Len(elements) : elements[k] = 0 THEN [panic |-> FALSE, value |-> 0]
    ELSE \* LET next_sequence = self.from_differences()
         CHOOSE r \in
            {IF next_sequence.panic THEN [panic |-> TRUE, value |-> 0]
             ELSE CHOOSE q \in
                    {IF extrapolated.panic THEN [panic |-> TRUE, value |-> 0]
                     ELSE IF reverse
                     THEN I32Result9(elements[1] - extrapolated.value, overflow_checks)
                     ELSE I32Result9(elements[Len(elements)] + extrapolated.value,
                                     overflow_checks) :
                        extrapolated \in {extrapolate_next_value(next_sequence.elements,
                                                                 reverse, overflow_checks)}}
                    : TRUE :
                next_sequence \in {from_differences(elements, overflow_checks)}} : TRUE

\* The variables of the other programs.
Others9 == <<day17, day14, day5, day19, day10, day18, day22, day11, day1>>

\* The lines of an input: the numbers drawn, cut into lines of the lengths
\* drawn; a line may be empty.
Lines9(numbers, lens) ==
    [k \in DOMAIN lens |->
        SubSeq(numbers, SumOver(lens, 1 .. (k - 1)) + 1, SumOver(lens, 1 .. k))]

Day9Init ==
    /\ \E total \in 0 .. MaxElements9 :
       \E numbers \in [(1 .. total) -> I32Min9 .. I32Max9] :
       \E n \in 0 .. MaxLines9 :
       \E lens \in [(1 .. n) -> 0 .. total] :
       \E part \in 1 .. 2 : \E overflow_checks \in BOOLEAN :
          /\ SumOver(lens, 1 .. n) = total
          /\ day9 = [pc |-> "from_input", part |-> part,
                     overflow_checks |-> overflow_checks,
                     input |-> Lines9(numbers, lens),
                     histories |-> <<>>, i |-> 0, sum |-> 0,
                     last |-> [panic |-> FALSE, value |-> 0], result |-> 0]
    /\ day17 = Idle /\ day14 = Idle /\ day5 = Idle /\ day19 = Idle
    /\ day10 = Idle /\ day18 = Idle /\ day22 = Idle /\ day11 = Idle /\ day1 = Idle

\* Puzzle::from_input: the lines that are not empty.
Day9FromInput ==
    /\ day9.pc = "from_input"
    /\ day9' = [day9 EXCEPT !.pc = "sum",
                            !.histories = SelectSeq(day9.input, LAMBDA line : line # <<>>),
                            !.i = 1, !.sum = 0]
    /\ UNCHANGED Others9

\* sum_extrapolated_values: one history extrapolated and added to the sum.
Day9Extrapolate ==
    /\ day9.pc = "sum"
    /\ day9.i <= Len(day9.histories)
    /\ \E value \in {extrapolate_next_value(day9.histories[day9.i], day9.part = 2,
                                            day9.overflow_checks)} :
          IF value.panic
          THEN day9' = [day9 EXCEPT !.pc = "panic", !.last = value]
          ELSE \E sum \in {I32Result9(day9.sum + value.value, day9.overflow_checks)} :
                  IF sum.panic
                  THEN day9' = [day9 EXCEPT !.pc = "panic", !.last = value]
                  ELSE day9' = [day9 EXCEPT !.sum = sum.value, !.last = value,
                                            !.i = day9.i + 1]
    /\ UNCHANGED Others9

\* part1, part2: Ok(puzzle.sum_extrapolated_values(reverse))
Day9Return ==
    /\ day9.pc = "sum"
    /\ day9.i > Len(day9.histories)
    /\ day9' = [day9 EXCEPT !.pc = "done", !.result = day9.sum]
    /\ UNCHANGED Others9

Day9Next == Day9FromInput \/ Day9Extrapolate \/ Day9Return

Spec9 == Day9Init /\ [][Day9Next]_vars

\* A sequence back to front.
Reversed9(elements) == [k \in 1 .. Len(elements) |-> elements[Len(elements) + 1 - k]]

\* The history of the latest call of extrapolate_next_value.
LastHistory9 ==
    IF day9.pc = "panic" THEN day9.histories[day9.i] ELSE day9.histories[day9.i - 1]

\* C14: for every sequence extrapolate_next_value returns (each recursion
\* works on a sequence one element shorter, an empty or all-zero sequence
\* gives 0), and extrapolate_next_value(true) on s equals
\* extrapolate_next_value(false) on s reversed.
C14_BackwardIsForwardOnReversed ==
    /\ day9.pc \in {"sum", "done", "panic"} =>
          \A k \in 1 .. Len(day9.histories) :
             \E next_sequence \in {from_differences(day9.histories[k], day9.overflow_checks)} :
                ~next_sequence.panic
                   => Len(next_sequence.elements) = Len(day9.histories[k]) - 1
    /\ (day9.pc = "panic" \/ (day9.pc = "sum" /\ day9.i >= 2)) =>
          /\ (\A k \in 1 .. Len(LastHistory9) : LastHistory9[k] = 0) => day9.last.value = 0
          /\ day9.part = 2 =>
                day9.last = extrapolate_next_value(Reversed9(LastHistory9), FALSE,
                                                   day9.overflow_checks)

=============================================================================
